---- MODULE Spec2Model ----
(***************************************************************************)
(* WifiObserver: the scan session of src/wifi_scanner.py (record store,    *)
(* hidden-network set, probe-response resolution, export, SIGINT) and the  *)
(* scoring classifier of src/network_classifier.py.                        *)
(*                                                                         *)
(* Text (SSIDs, manufacturer names, keywords) is a sequence of one-letter  *)
(* strings, so that upper() and the substring test `in` are computed.      *)
(* A time value is [kind, v]: kind "float" is a time.time() reading in     *)
(* clock ticks, kind "str" the text strftime produced from it (whole       *)
(* seconds).                                                               *)
(***************************************************************************)
EXTENDS Integers, Sequences, FiniteSets, TLC

VARIABLES
    networks,        \* wifi_scanner.networks: bssid -> record
    hidden_networks, \* wifi_scanner.hidden_networks: set of bssid
    now,             \* the wall clock time.time() reads
    uncovered,       \* the "Uncovered hidden network" lines logged, in order
    pc,              \* position of main(): sniff, saved, handler, exited, crashed
    scan_data,       \* what save_results last wrote (NoFile before)
    hpc,             \* position inside the packet callback (interruptible view)
    pkt,             \* the packet the callback is processing
    ssid_l,          \* the callback's local variable ssid
    network_data,    \* argument of network_classifier.classify_network
    result,          \* its return value (NoResult before the call)
    loaded,          \* what graphs/network_types.load_data returned
    distribution,    \* the distributions computed from it (NoDistribution before)
    analyzer_networks, \* signal_analyzer.networks: bssid -> record
    signal_history,  \* signal_analyzer.signal_history: bssid -> samples
    signals,         \* argument of signal_analyzer.analyze_signal_stability
    analysis,        \* its return value (NoAnalysis before the call)
    interrupted,     \* signal_analyzer.interrupted
    current_time,    \* signal_analyzer.main's local variable current_time
    report,          \* generate_signal_report: calls so far, report written
    seen,            \* history: station ids of the beacons handled so far
    ingested         \* history: per station, the signal levels of its beacons

vars == << networks, hidden_networks, now, uncovered, pc, scan_data,
           hpc, pkt, ssid_l, network_data, result, loaded, distribution,
           analyzer_networks, signal_history, signals, analysis,
           interrupted, current_time, report, seen, ingested >>

scanVars == << networks, hidden_networks, now, uncovered, pc, scan_data,
               hpc, pkt, ssid_l >>

classVars == << network_data, result, loaded, distribution >>

analyzerVars == << analyzer_networks, signal_history, ingested,
                   interrupted, current_time, report >>

stabVars == << signals, analysis >>

----------------------------------------------------------------------------
(* Bounds of the model *)

MaxTime == 1

TicksPerSecond == 2

----------------------------------------------------------------------------
(* Text *)

LowerCase == <<"a","b","c","d","e","f","g","h","i","j","k","l","m",
               "n","o","p","q","r","s","t","u","v","w","x","y","z">>

UpperCase == <<"A","B","C","D","E","F","G","H","I","J","K","L","M",
               "N","O","P","Q","R","S","T","U","V","W","X","Y","Z">>

UpperChar(c) ==
    IF \E i \in DOMAIN LowerCase : LowerCase[i] = c
    THEN UpperCase[CHOOSE i \in DOMAIN LowerCase : LowerCase[i] = c]
    ELSE c

\* str.upper()
Upper(s) == [i \in DOMAIN s |-> UpperChar(s[i])]

\* pattern in s
Contains(pattern, s) ==
    \E i \in 0..(Len(s) - Len(pattern)) :
        SubSeq(s, i + 1, i + Len(pattern)) = pattern

\* any(pattern in s for pattern in patterns)
ContainsAny(patterns, s) ==
    \E k \in DOMAIN patterns : Contains(patterns[k], s)

EmptyText == << >>

HiddenNetworkText == <<"[","H","i","d","d","e","n"," ","N","e","t","w","o","r","k","]">>

UnknownText == <<"U","n","k","n","o","w","n">>

OfficeNetText == <<"O","F","F","I","C","E","-","N","E","T">>

GuestWifiText == <<"G","u","e","s","t"," ","W","i","F","i">>

CiscoText == <<"C","i","s","c","o">>

----------------------------------------------------------------------------
(* Packets handed to process_packet by scapy.sniff *)

BSSIDs == {"AA:1", "BB:2"}

\* packet[Dot11Elt].info.decode("utf-8"): the text, or a decoding error
DecodedInfos ==
    [ok : {TRUE}, text : {EmptyText, HiddenNetworkText, OfficeNetText, GuestWifiText}]
        \cup [ok : {FALSE}, text : {EmptyText}]

\* the radio side of a frame: capability privacy bit, RSN element (ID 48)
\* bytes, WPA vendor element, DS parameter element, RadioTap dBm_AntSignal
\* (has |-> FALSE: the packet has no such attribute)
OpenFrame ==
    [ privacy |-> FALSE, has_rsn |-> FALSE, rsn |-> << >>, wpa |-> FALSE,
      ds |-> <<6>>, ant |-> [has |-> TRUE, dBm |-> -35] ]

RsnFrame ==
    [ privacy |-> TRUE, has_rsn |-> TRUE, rsn |-> <<0, 15, 172, 4>>, wpa |-> FALSE,
      ds |-> <<11>>, ant |-> [has |-> FALSE, dBm |-> 0] ]

Packets ==
    [ kind  : {"beacon"},
      addr2 : BSSIDs,
      info  : DecodedInfos,
      radio : {OpenFrame, RsnFrame} ]
    \cup
    [ kind  : {"probe_resp"},
      addr2 : BSSIDs,
      info  : DecodedInfos,
      radio : {OpenFrame} ]

\* packet[scapy.Dot11].addr2 of a frame without a transmitter address: None
NoId == "None"

\* the frames of a session in which some frames lack the transmitter address
PacketsWithMalformed ==
    [ kind  : {"beacon"},
      addr2 : {"AA:1", NoId},
      info  : DecodedInfos,
      radio : {OpenFrame, RsnFrame} ]
    \cup
    [ kind  : {"probe_resp"},
      addr2 : {"AA:1", NoId},
      info  : DecodedInfos,
      radio : {OpenFrame} ]

NoPacket ==
    [ kind |-> "none", addr2 |-> "none",
      info |-> [ok |-> FALSE, text |-> EmptyText],
      radio |-> OpenFrame ]

----------------------------------------------------------------------------
(* Time *)

Float(t) == [kind |-> "float", v |-> t]

\* datetime.fromtimestamp(x).strftime("%Y-%m-%d %H:%M:%S"): whole seconds, as text
Strftime(x) == [kind |-> "str", v |-> x.v \div TicksPerSecond]

\* the values a time.time() call can return when the clock shows `from`
Readings(from) == { t \in from..(from + 1) : t <= MaxTime }

----------------------------------------------------------------------------
(* Packet field extraction, src/wifi_scanner.py *)

get_channel(packet) ==
    IF Len(packet.radio.ds) = 1 THEN packet.radio.ds[1] ELSE 0

HexDigits == <<"0","1","2","3","4","5","6","7","8","9","a","b","c","d","e","f">>

RECURSIVE Hex(_)
\* bytes.hex()
Hex(bytes) ==
    IF bytes = << >> THEN << >>
    ELSE << HexDigits[(Head(bytes) \div 16) + 1], HexDigits[(Head(bytes) % 16) + 1] >>
             \o Hex(Tail(bytes))

\* the RSN element as hex text; has |-> FALSE stands for None
get_rsn_info(packet) ==
    IF packet.radio.has_rsn
    THEN [has |-> TRUE, hex |-> Hex(packet.radio.rsn)]
    ELSE [has |-> FALSE, hex |-> << >>]

get_wpa_info(packet) == packet.radio.wpa

get_encryption(packet) ==
    IF packet.radio.privacy
    THEN LET rsn == get_rsn_info(packet) IN
         IF rsn.has /\ rsn.hex # << >>
         THEN IF Contains(<<"C","C","M","P">>, rsn.hex) THEN "WPA2/WPA3" ELSE "WPA2"
         ELSE IF get_wpa_info(packet) THEN "WPA" ELSE "WEP"
    ELSE "Open"

get_signal_strength(packet) ==
    IF packet.radio.ant.has THEN packet.radio.ant.dBm ELSE -100

\* manuf.MacParser().get_manuf(mac), "Unknown" when it finds nothing or fails
get_manufacturer(mac) ==
    IF mac = "AA:1" THEN CiscoText ELSE UnknownText

OfficialPatterns ==
    << <<"F","B","I">>, <<"G","O","V">>, <<"P","O","L","I","C","E">>, <<"F","E","D">>,
       <<"M","I","L">>, <<"D","O","D">>, <<"S","E","C","U","R","E">> >>

EnterprisePatterns ==
    << <<"C","O","R","P">>, <<"E","N","T","E","R","P","R","I","S","E">>,
       <<"S","T","A","F","F">>, <<"E","M","P","L","O","Y","E","E">> >>

HotspotPatterns ==
    << <<"I","P","H","O","N","E">>, <<"A","N","D","R","O","I","D">>,
       <<"G","A","L","A","X","Y">>, <<"M","O","B","I","L","E">>,
       <<"H","O","T","S","P","O","T">> >>

PublicPatterns ==
    << <<"P","U","B","L","I","C">>, <<"G","U","E","S","T">>, <<"F","R","E","E">>,
       <<"W","I","F","I">> >>

\* wifi_scanner.classify_network(ssid, bssid, encryption, manufacturer)
scanner_classify_network(ssid, bssid, encryption, manufacturer) ==
    IF ContainsAny(OfficialPatterns, Upper(ssid)) THEN "POSSIBLE_OFFICIAL"
    ELSE IF ContainsAny(EnterprisePatterns, Upper(ssid)) THEN "ENTERPRISE"
    ELSE IF ContainsAny(HotspotPatterns, Upper(ssid)) THEN "MOBILE_HOTSPOT"
    ELSE IF ContainsAny(PublicPatterns, Upper(ssid)) THEN "PUBLIC"
    ELSE "STANDARD"

----------------------------------------------------------------------------
(* The packet callbacks, src/wifi_scanner.py *)

\* networks[bssid] = record
\* variant: storing a record drops the other stations
Put_alone(nets, bssid, record) == [b \in {bssid} |-> record]

Put(nets, bssid, record) ==
    [b \in (DOMAIN nets) \cup {bssid} |-> IF b = bssid THEN record ELSE nets[b]]

\* lines 99-102: the decoded SSID, "Unknown" when decoding fails
beacon_ssid(packet) ==
    IF packet.info.ok THEN packet.info.text ELSE UnknownText

\* line 105: ssid == "" or not ssid
is_empty_ssid(ssid) == ssid = EmptyText

\* lines 122-133
\* variant: the two clock readings are stored the other way round
new_record_swapped(packet, ssid, t1, t2) ==
    [ ssid         |-> ssid,
      bssid        |-> packet.addr2,
      channel      |-> get_channel(packet),
      encryption   |-> get_encryption(packet),
      signal       |-> get_signal_strength(packet),
      manufacturer |-> get_manufacturer(packet.addr2),
      first_seen   |-> Float(t2),
      last_seen    |-> Float(t1),
      hidden       |-> (ssid = HiddenNetworkText),
      type         |-> scanner_classify_network(ssid, packet.addr2,
                           get_encryption(packet), get_manufacturer(packet.addr2)) ]

new_record(packet, ssid, t1, t2) ==
    [ ssid         |-> ssid,
      bssid        |-> packet.addr2,
      channel      |-> get_channel(packet),
      encryption   |-> get_encryption(packet),
      signal       |-> get_signal_strength(packet),
      manufacturer |-> get_manufacturer(packet.addr2),
      first_seen   |-> Float(t1),
      last_seen    |-> Float(t2),
      hidden       |-> (ssid = HiddenNetworkText),
      type         |-> scanner_classify_network(ssid, packet.addr2,
                           get_encryption(packet), get_manufacturer(packet.addr2)) ]

\* update_known as it would be if a nameless beacon concealed the station again
update_known_rehides(nets, hid, packet, t) ==
    LET concealing == is_empty_ssid(beacon_ssid(packet)) IN
    [ networks |-> [nets EXCEPT
          ![packet.addr2].signal = get_signal_strength(packet),
          ![packet.addr2].last_seen = Float(t),
          ![packet.addr2].ssid = IF concealing THEN HiddenNetworkText ELSE @,
          ![packet.addr2].hidden = IF concealing THEN TRUE ELSE @],
      hidden_networks |-> IF concealing THEN hid \cup {packet.addr2} ELSE hid ]

\* update_known as it would be if a named beacon resolved a concealed station
update_known_resolves(nets, hid, packet, t) ==
    LET name     == beacon_ssid(packet)
        resolves == /\ nets[packet.addr2].hidden
                    /\ ~is_empty_ssid(name)
                    /\ name # HiddenNetworkText
    IN
    [ networks |-> [nets EXCEPT
          ![packet.addr2].signal = get_signal_strength(packet),
          ![packet.addr2].last_seen = Float(t),
          ![packet.addr2].ssid = IF resolves THEN name ELSE @,
          ![packet.addr2].hidden = IF resolves THEN FALSE ELSE @],
      hidden_networks |-> IF resolves THEN hid \ {packet.addr2} ELSE hid ]

\* lines 92-96: a beacon of a station already in the store
update_known(nets, hid, packet, t) ==
    [ networks |-> [nets EXCEPT ![packet.addr2].signal = get_signal_strength(packet),
                                ![packet.addr2].last_seen = Float(t)],
      hidden_networks |-> hid ]

\* lines 98-133: a beacon of a station not yet in the store
insert_new(nets, hid, packet, t1, t2) ==
    LET decoded == beacon_ssid(packet)
        ssid    == IF is_empty_ssid(decoded) THEN HiddenNetworkText ELSE decoded
    IN  [ networks |-> Put(nets, packet.addr2, new_record(packet, ssid, t1, t2)),
          hidden_networks |->
              IF is_empty_ssid(decoded) THEN hid \cup {packet.addr2} ELSE hid ]

process_beacon(nets, hid, packet, t1, t2) ==
    IF packet.addr2 \in DOMAIN nets
    THEN update_known(nets, hid, packet, t1)
    ELSE insert_new(nets, hid, packet, t1, t2)

\* probe_resolves without the membership test of line 149
probe_resolves_any_station(nets, hid, packet) ==
    /\ packet.info.ok
    /\ packet.info.text # EmptyText
    /\ packet.info.text # HiddenNetworkText
    /\ packet.addr2 \in DOMAIN nets

\* line 149 (and 150): the probe response names a station of hidden_networks
probe_resolves(nets, hid, packet) ==
    /\ packet.info.ok
    /\ packet.addr2 \in hid
    /\ packet.info.text # EmptyText
    /\ packet.info.text # HiddenNetworkText
    /\ packet.addr2 \in DOMAIN nets

\* resolve without line 155
resolve_keeps_entry(nets, hid, log, packet, t) ==
    [ networks |-> [nets EXCEPT ![packet.addr2].ssid = packet.info.text,
                                ![packet.addr2].hidden = FALSE,
                                ![packet.addr2].last_seen = Float(t)],
      hidden_networks |-> hid,
      uncovered |-> Append(log, <<packet.info.text, packet.addr2>>) ]

\* resolve without line 153
resolve_keeps_flag(nets, hid, log, packet, t) ==
    [ networks |-> [nets EXCEPT ![packet.addr2].ssid = packet.info.text,
                                ![packet.addr2].last_seen = Float(t)],
      hidden_networks |-> hid \ {packet.addr2},
      uncovered |-> Append(log, <<packet.info.text, packet.addr2>>) ]

\* variant: resolving a station classifies it again from the disclosed name
resolve_reclassifies(nets, hid, log, packet, t) ==
    [ networks |-> [nets EXCEPT ![packet.addr2].ssid = packet.info.text,
                                ![packet.addr2].hidden = FALSE,
                                ![packet.addr2].last_seen = Float(t),
                                ![packet.addr2].type =
                                    scanner_classify_network(packet.info.text, packet.addr2,
                                        nets[packet.addr2].encryption,
                                        nets[packet.addr2].manufacturer)],
      hidden_networks |-> hid \ {packet.addr2},
      uncovered |-> Append(log, <<packet.info.text, packet.addr2>>) ]

\* lines 152-158
resolve(nets, hid, log, packet, t) ==
    [ networks |-> [nets EXCEPT ![packet.addr2].ssid = packet.info.text,
                                ![packet.addr2].hidden = FALSE,
                                ![packet.addr2].last_seen = Float(t)],
      hidden_networks |-> hid \ {packet.addr2},
      uncovered |-> Append(log, <<packet.info.text, packet.addr2>>) ]

process_probe_response(nets, hid, log, packet, t) ==
    IF probe_resolves(nets, hid, packet)
    THEN resolve(nets, hid, log, packet, t)
    ELSE [networks |-> nets, hidden_networks |-> hid, uncovered |-> log]

----------------------------------------------------------------------------
(* Export, src/wifi_scanner.py save_results *)

NoFile == [written |-> FALSE]

\* datetime.fromtimestamp raises TypeError on text
raises_on(nets) ==
    \E b \in DOMAIN nets :
        nets[b].first_seen.kind # "float" \/ nets[b].last_seen.kind # "float"

\* lines 317-321: the loop rewrites both times of every record in place
converted(nets) ==
    [b \in DOMAIN nets |->
        [nets[b] EXCEPT !.first_seen = Strftime(@), !.last_seen = Strftime(@)]]

\* the store after the call, the file written, and whether the call raised
save_results(nets, hid, file, clock) ==
    IF raises_on(nets)
    THEN [raised |-> TRUE, networks |-> nets, scan_data |-> file]
    ELSE [raised |-> FALSE,
          networks |-> converted(nets),
          scan_data |-> [ written         |-> TRUE,
                          scan_start      |-> Strftime(Float(0)),
                          scan_end        |-> Strftime(Float(clock)),
                          total_networks  |-> Cardinality(DOMAIN nets),
                          hidden_networks |-> Cardinality(hid),
                          networks        |-> converted(nets) ]]

----------------------------------------------------------------------------
(* Scoring classifier, src/network_classifier.py *)

NETWORK_TYPES ==
    [ POSSIBLE_OFFICIAL |-> <<
            <<"F","B","I">>,
            <<"G","O","V">>,
            <<"P","O","L","I","C","E">>,
            <<"F","E","D">>,
            <<"M","I","L">>,
            <<"D","O","D">>,
            <<"S","E","C","U","R","E">>,
            <<"A","G","E","N","C","Y">>,
            <<"O","F","F","I","C","I","A","L">>,
            <<"L","E","O">>,
            <<"D","H","S">>,
            <<"E","M","E","R","G","E","N","C","Y">>,
            <<"E","M","E","R","G">>
        >>,
      ENTERPRISE |-> <<
            <<"C","O","R","P">>,
            <<"E","N","T","E","R","P","R","I","S","E">>,
            <<"S","T","A","F","F">>,
            <<"E","M","P","L","O","Y","E","E">>,
            <<"C","O","R","P","O","R","A","T","E">>,
            <<"O","F","F","I","C","E">>,
            <<"B","U","S","I","N","E","S","S">>,
            <<"C","O","M","P","A","N","Y">>,
            <<"I","N","C">>,
            <<"L","L","C">>,
            <<"L","T","D">>
        >>,
      MOBILE_HOTSPOT |-> <<
            <<"I","P","H","O","N","E">>,
            <<"A","N","D","R","O","I","D">>,
            <<"G","A","L","A","X","Y">>,
            <<"M","O","B","I","L","E">>,
            <<"H","O","T","S","P","O","T">>,
            <<"M","i","F","i">>,
            <<"P","H","O","N","E">>,
            <<"P","O","C","K","E","T">>,
            <<"S","A","M","S","U","N","G">>,
            <<"H","U","A","W","E","I">>,
            <<"U","S","B">>
        >>,
      PUBLIC |-> <<
            <<"P","U","B","L","I","C">>,
            <<"G","U","E","S","T">>,
            <<"F","R","E","E">>,
            <<"W","I","F","I">>,
            <<"A","I","R","P","O","R","T">>,
            <<"H","O","T","E","L">>,
            <<"C","A","F","E">>,
            <<"R","E","S","T","A","U","R","A","N","T">>,
            <<"O","P","E","N">>,
            <<"L","I","B","R","A","R","Y">>,
            <<"S","T","O","R","E">>
        >>,
      IOT |-> <<
            <<"C","A","M">>,
            <<"C","A","M","E","R","A">>,
            <<"R","I","N","G">>,
            <<"N","E","S","T">>,
            <<"S","M","A","R","T">>,
            <<"H","O","M","E">>,
            <<"D","E","V","I","C","E">>,
            <<"S","E","N","S","O","R">>,
            <<"T","H","E","R","M","O","S","T","A","T">>,
            <<"B","U","L","B">>,
            <<"T","V">>,
            <<"R","O","K","U">>
        >>,
      ISP_PROVIDED |-> <<
            <<"X","F","I","N","I","T","Y">>,
            <<"C","O","M","C","A","S","T">>,
            <<"S","P","E","C","T","R","U","M">>,
            <<"A","T","T">>,
            <<"V","E","R","I","Z","O","N">>,
            <<"F","I","O","S">>,
            <<"O","P","T","I","M","U","M">>,
            <<"C","O","X">>,
            <<"C","E","N","T","U","R","Y","L","I","N","K">>,
            <<"F","R","O","N","T","I","E","R">>,
            <<"R","O","U","T","E","R">>
        >> ]

MANUFACTURER_TYPES ==
    [ GOVERNMENT |-> <<
            <<"H","A","R","R","I","S">>,
            <<"G","E","N","E","R","A","L"," ","D","Y","N","A","M","I","C","S">>,
            <<"N","O","R","T","H","R","O","P">>,
            <<"L","O","C","K","H","E","E","D">>,
            <<"R","A","Y","T","H","E","O","N">>
        >>,
      ENTERPRISE |-> <<
            <<"C","I","S","C","O">>,
            <<"A","R","U","B","A">>,
            <<"J","U","N","I","P","E","R">>,
            <<"E","X","T","R","E","M","E">>,
            <<"F","O","R","T","I","N","E","T">>,
            <<"R","U","C","K","U","S">>
        >>,
      CONSUMER |-> <<
            <<"N","E","T","G","E","A","R">>,
            <<"L","I","N","K","S","Y","S">>,
            <<"T","P","-","L","I","N","K">>,
            <<"D","-","L","I","N","K">>,
            <<"B","E","L","K","I","N">>,
            <<"A","S","U","S">>
        >>,
      MOBILE |-> <<
            <<"A","P","P","L","E">>,
            <<"S","A","M","S","U","N","G">>,
            <<"G","O","O","G","L","E">>,
            <<"H","U","A","W","E","I">>,
            <<"X","I","A","O","M","I">>,
            <<"M","O","T","O","R","O","L","A">>,
            <<"H","T","C">>
        >>,
      IOT |-> <<
            <<"N","E","S","T">>,
            <<"R","I","N","G">>,
            <<"E","C","O","B","E","E">>,
            <<"W","Y","Z","E">>,
            <<"S","O","N","O","S">>,
            <<"R","O","K","U">>,
            <<"A","M","A","Z","O","N">>
        >> ]

\* the keys of the scores dict, in insertion order
ScoreTypes ==
    << "POSSIBLE_OFFICIAL", "ENTERPRISE", "MOBILE_HOTSPOT", "PUBLIC", "IOT",
       "ISP_PROVIDED", "STANDARD" >>

\* lines 153-154
priorities ==
    << "POSSIBLE_OFFICIAL", "ENTERPRISE", "MOBILE_HOTSPOT", "PUBLIC", "IOT",
       "ISP_PROVIDED", "STANDARD" >>

Range(seq) == { seq[i] : i \in DOMAIN seq }

Min(a, b) == IF a <= b THEN a ELSE b

\* how many entries of `patterns` occur in `text`
Matches(patterns, text) ==
    Cardinality({ k \in DOMAIN patterns : Contains(patterns[k], text) })

\* lines 98-101
hidden_score(hidden, type) ==
    IF ~hidden THEN 0
    ELSE CASE type = "POSSIBLE_OFFICIAL" -> 3
           [] type = "ENTERPRISE" -> 2
           [] OTHER -> 0

\* variant: WPA2 counts as strong encryption too
encryption_score_wpa2_strong(encryption, type) ==
    IF encryption \in {"WPA2/WPA3", "WPA2"}
    THEN CASE type = "POSSIBLE_OFFICIAL" -> 2
           [] type = "ENTERPRISE" -> 2
           [] type = "ISP_PROVIDED" -> 1
           [] OTHER -> 0
    ELSE IF encryption = "Open"
    THEN (IF type = "PUBLIC" THEN 3 ELSE 0)
    ELSE 0

\* lines 103-109
encryption_score(encryption, type) ==
    IF encryption = "WPA2/WPA3"
    THEN CASE type = "POSSIBLE_OFFICIAL" -> 2
           [] type = "ENTERPRISE" -> 2
           [] type = "ISP_PROVIDED" -> 1
           [] OTHER -> 0
    ELSE IF encryption = "Open"
    THEN (IF type = "PUBLIC" THEN 3 ELSE 0)
    ELSE 0

\* lines 111-115; ssid is already upper-cased, the patterns are taken as listed
ssid_score(ssid, type) ==
    IF type \in DOMAIN NETWORK_TYPES
    THEN 4 * Matches(NETWORK_TYPES[type], ssid)
    ELSE 0

\* lines 117-131; manufacturer is already upper-cased
manufacturer_score(manufacturer, type) ==
    CASE type = "POSSIBLE_OFFICIAL" -> 4 * Matches(MANUFACTURER_TYPES.GOVERNMENT, manufacturer)
      [] type = "ENTERPRISE" -> 3 * Matches(MANUFACTURER_TYPES.ENTERPRISE, manufacturer)
      [] type = "STANDARD" -> 2 * Matches(MANUFACTURER_TYPES.CONSUMER, manufacturer)
      [] type = "ISP_PROVIDED" -> 1 * Matches(MANUFACTURER_TYPES.CONSUMER, manufacturer)
      [] type = "MOBILE_HOTSPOT" -> 4 * Matches(MANUFACTURER_TYPES.MOBILE, manufacturer)
      [] type = "IOT" -> 4 * Matches(MANUFACTURER_TYPES.IOT, manufacturer)
      [] OTHER -> 0

\* lines 133-138
signal_score(signal, type) ==
    IF signal > -40
    THEN (IF type \in {"STANDARD", "ISP_PROVIDED"} THEN 1 ELSE 0)
    ELSE IF signal < -80
    THEN (IF type = "MOBILE_HOTSPOT" THEN 1 ELSE 0)
    ELSE 0

\* line 96: network_data.get("signal", -100)
data_signal(data) == IF data.has_signal THEN data.signal ELSE -100

\* lines 81-138: the scores dict when the resolution starts
compute_scores(data) ==
    [ type \in Range(ScoreTypes) |->
          hidden_score(data.hidden, type)
        + encryption_score(data.encryption, type)
        + ssid_score(Upper(data.ssid), type)
        + manufacturer_score(Upper(data.manufacturer), type)
        + signal_score(data_signal(data), type) ]

\* max(scores.values())
max_of(scores) ==
    CHOOSE m \in { scores[t] : t \in DOMAIN scores } :
        \A t \in DOMAIN scores : scores[t] <= m

\* line 146: the types that reach the maximum, in dict order
candidates_of(scores) ==
    SelectSeq(ScoreTypes, LAMBDA t : scores[t] = max_of(scores))

\* clear_confidence without the cap at 1.0
clear_confidence_uncapped(max_score) == max_score

\* tie_confidence with the cap of the clear winner
tie_confidence_uncapped(max_score) == Min(10, max_score)

\* line 149, confidence in tenths: min(1.0, max_score / 10.0)
clear_confidence(max_score) == Min(10, max_score)

\* line 157, confidence in tenths: min(0.7, max_score / 10.0)
tie_confidence(max_score) == Min(7, max_score)

\* lines 155-158: the first entry of priorities that is a candidate
first_by_priority(candidates) ==
    priorities[CHOOSE i \in DOMAIN priorities :
                   /\ priorities[i] \in Range(candidates)
                   /\ \A j \in 1..(i - 1) : priorities[j] \notin Range(candidates)]

\* lines 140-161; confidence10 is the confidence times 10
resolve_scores(scores) ==
    LET max_score  == max_of(scores)
        candidates == candidates_of(scores)
    IN  IF max_score = 0
        THEN [type |-> "STANDARD", confidence10 |-> 0]
        ELSE IF Len(candidates) = 1
        THEN [type |-> candidates[1], confidence10 |-> clear_confidence(max_score)]
        ELSE IF \E i \in DOMAIN priorities : priorities[i] \in Range(candidates)
        THEN [type |-> first_by_priority(candidates),
              confidence10 |-> tie_confidence(max_score)]
        ELSE [type |-> "STANDARD", confidence10 |-> 0]

\* variant: a record that already carries a category other than STANDARD
\* keeps it
classify_network_keeps_type(data) ==
    IF data.type # "STANDARD"
    THEN [type |-> data.type, confidence10 |-> 10]
    ELSE resolve_scores(compute_scores(data))

\* classify_network, lines 72-161
classify_network(data) == resolve_scores(compute_scores(data))

----------------------------------------------------------------------------
(* Classifier state while the scanner runs *)

\* (type: the category the record already carries)
NoData ==
    [ ssid |-> EmptyText, encryption |-> "Unknown", hidden |-> FALSE,
      manufacturer |-> UnknownText, signal |-> -100, has_signal |-> TRUE,
      type |-> "STANDARD" ]

\* (again: classify_network was called a second time on the same record)
NoResult == [called |-> FALSE, type |-> "STANDARD", confidence10 |-> 0, again |-> FALSE]

----------------------------------------------------------------------------
(* The distribution of categories: network_classifier.py and            *)
(* graphs/network_types.py                                               *)

\* a record as far as the distribution reads it (has_type: the record has
\* a "type" key)
TypeInputs ==
    [ has_type : {TRUE}, type : {"POSSIBLE_OFFICIAL", "PUBLIC", "STANDARD", "HOME", "None"} ]
        \cup [ has_type : {FALSE}, type : {"STANDARD"} ]

\* load_data's return value: the records, and the distribution the file
\* carried if it was a file with a distribution and without "networks"
NoLoaded ==
    [ networks |-> << >>, has_distribution |-> FALSE,
      distribution |-> [ t \in Range(ScoreTypes) |-> 0 ] ]

NoDistribution ==
    [ called |-> FALSE, classifier |-> NoLoaded.distribution, chart |-> NoLoaded.distribution ]

\* network_classifier.analyze_network_distribution, lines 203-229, on
\* networks.values(): the last record is counted after the others
RECURSIVE analyze_network_distribution(_)
analyze_network_distribution(values) ==
    IF values = << >> THEN [ t \in Range(ScoreTypes) |-> 0 ]
    ELSE LET counted == analyze_network_distribution(SubSeq(values, 1, Len(values) - 1))
             network == values[Len(values)]
             network_type == IF network.has_type THEN network.type ELSE "STANDARD"
         IN  IF network_type \in DOMAIN counted
             THEN [ counted EXCEPT ![network_type] = @ + 1 ]
             ELSE [ counted EXCEPT !["STANDARD"] = @ + 1 ]

\* lines 67-84 of calculate_distribution: the loop over data["networks"]
RECURSIVE count_networks(_)
count_networks(list) ==
    IF list = << >> THEN [ t \in Range(ScoreTypes) |-> 0 ]
    ELSE LET counted == count_networks(SubSeq(list, 1, Len(list) - 1))
             network == list[Len(list)]
             network_type == IF network.has_type THEN network.type ELSE "STANDARD"
         IN  IF network_type \in DOMAIN counted
             THEN [ counted EXCEPT ![network_type] = @ + 1 ]
             ELSE [ counted EXCEPT !["STANDARD"] = @ + 1 ]

\* variant: a record of an unlisted category is left out
calculate_distribution_listed_only(file) ==
    IF file.has_distribution THEN file.distribution
    ELSE count_networks(SelectSeq(file.networks,
                                  LAMBDA n : ~n.has_type \/ n.type \in Range(ScoreTypes)))

\* graphs/network_types.calculate_distribution, lines 55-86
calculate_distribution(file) ==
    IF file.has_distribution THEN file.distribution
    ELSE count_networks(file.networks)

----------------------------------------------------------------------------
(* signal_analyzer.py: the capture store *)

\* the number of beacons a capture of the model takes
MaxSamples == 3

\* analyze_signal_stability before any call: no argument, no return value
\* (none: the argument is None; list: the (timestamp, signal) pairs)
NoSignals == [ none |-> TRUE, list |-> << >> ]

NoAnalysis == [ called |-> FALSE, stability |-> "Unknown", range |-> 0, trend |-> "Unknown" ]

\* lines 103-108, 113: the record of a station seen for the first time
analyzer_new_record(packet, ssid, timestamp) ==
    [ ssid       |-> ssid,
      bssid      |-> packet.addr2,
      first_seen |-> Float(timestamp),
      last_seen  |-> Float(timestamp),
      signals    |-> << >> ]

\* variant: a known station gets a fresh record
analyzer_ensure_recreates(nets, hist, packet, ssid, timestamp) ==
    [ networks |-> Put(nets, packet.addr2, analyzer_new_record(packet, ssid, timestamp)),
      signal_history |-> Put(hist, packet.addr2, << >>) ]

\* lines 102-110: create the record and its history when the station is new
analyzer_ensure(nets, hist, packet, ssid, timestamp) ==
    IF packet.addr2 \notin DOMAIN nets
    THEN [ networks |-> Put(nets, packet.addr2, analyzer_new_record(packet, ssid, timestamp)),
           signal_history |-> Put(hist, packet.addr2, << >>) ]
    ELSE [ networks |-> nets, signal_history |-> hist ]

\* variant: the newest sample goes first
add_sample_in_front(samples, timestamp, signal) == << << timestamp, signal >> >> \o samples

\* lines 114, 117: append the (timestamp, signal) pair
add_sample(samples, timestamp, signal) == Append(samples, << timestamp, signal >>)

\* signal_analyzer.process_beacon, lines 76-117
analyzer_process_beacon(nets, hist, packet, timestamp) ==
    LET ssid   == beacon_ssid(packet)
        name   == IF is_empty_ssid(ssid) THEN HiddenNetworkText ELSE ssid
        signal == get_signal_strength(packet)
        e      == analyzer_ensure(nets, hist, packet, name, timestamp)
        b      == packet.addr2
    IN  [ networks |->
              [ e.networks EXCEPT ![b] =
                  [ @ EXCEPT !.last_seen = Float(timestamp),
                             !.signals = add_sample(@, timestamp, signal) ] ],
          signal_history |->
              [ e.signal_history EXCEPT ![b] = add_sample(@, timestamp, signal) ] ]

\* signal_analyzer.process_packet on a beacon frame (lines 120-128)
AnalyzerBeacon(packet) ==
    /\ pc = "capture"
    /\ packet.kind = "beacon"
    \* the capture holds fewer than MaxSamples samples so far
    /\ Cardinality({ held \in (DOMAIN signal_history) \X (1..MaxSamples) :
                       held[2] <= Len(signal_history[held[1]]) }) < MaxSamples
    /\ \E t \in Readings(now) :
          LET r == analyzer_process_beacon(analyzer_networks, signal_history, packet, t) IN
          /\ analyzer_networks' = r.networks
          /\ signal_history' = r.signal_history
          /\ now' = t
    /\ seen' = seen \cup {packet.addr2}
    /\ ingested' =
          IF packet.addr2 \in DOMAIN ingested
          THEN [ ingested EXCEPT ![packet.addr2] = Append(@, get_signal_strength(packet)) ]
          ELSE Put(ingested, packet.addr2, << get_signal_strength(packet) >>)
    /\ UNCHANGED << networks, hidden_networks, uncovered, pc, scan_data,
                    hpc, pkt, ssid_l, classVars, stabVars,
                    interrupted, current_time, report >>

----------------------------------------------------------------------------
(* IEEE 754 binary64 arithmetic, the arithmetic of np.mean and np.std *)

\* a natural number is the sequence of its digits in base Base, lowest
\* first, without leading zeros; zero is the empty sequence
Base == 32768

LimbBits == 15

RECURSIVE Trim(_)
Trim(a0) ==
    CHOOSE res \in
      { IF a = << >> THEN a
        ELSE IF a[Len(a)] = 0 THEN Trim(SubSeq(a, 1, Len(a) - 1)) ELSE a
        : a \in {a0} } : TRUE

\* the digits i.. of a + b + carry
RECURSIVE AddFrom(_, _, _, _)
AddFrom(a0, b0, i0, carry0) ==
    CHOOSE res \in
      { IF i > Len(a) /\ i > Len(b)
        THEN IF carry = 0 THEN << >> ELSE << carry >>
        ELSE LET s == (IF i <= Len(a) THEN a[i] ELSE 0)
                      + (IF i <= Len(b) THEN b[i] ELSE 0) + carry
             IN  << s % Base >> \o AddFrom(a, b, i + 1, s \div Base)
        : a \in {a0}, b \in {b0}, i \in {i0}, carry \in {carry0} } : TRUE

\* the digits i.. of a - b - borrow, for a >= b; leading zeros are left in
RECURSIVE SubFrom(_, _, _, _)
SubFrom(a0, b0, i0, borrow0) ==
    CHOOSE res \in
      { IF i > Len(a) THEN << >>
        ELSE LET d == a[i] - (IF i <= Len(b) THEN b[i] ELSE 0) - borrow
             IN  IF d < 0 THEN << d + Base >> \o SubFrom(a, b, i + 1, 1)
                          ELSE << d >> \o SubFrom(a, b, i + 1, 0)
        : a \in {a0}, b \in {b0}, i \in {i0}, borrow \in {borrow0} } : TRUE

\* -1, 0, 1 as a < b, a = b, a > b, comparing the digits i, i-1, .. 1
RECURSIVE CmpFrom(_, _, _)
CmpFrom(a0, b0, i0) ==
    CHOOSE res \in
      { IF i = 0 THEN 0
        ELSE LET x == IF i <= Len(a) THEN a[i] ELSE 0
                 y == IF i <= Len(b) THEN b[i] ELSE 0
             IN  IF x > y THEN 1 ELSE IF x < y THEN -1 ELSE CmpFrom(a, b, i - 1)
        : a \in {a0}, b \in {b0}, i \in {i0} } : TRUE

\* the digits i.. of a * k + carry, for 0 < k < Base
RECURSIVE MulSmallFrom(_, _, _, _)
MulSmallFrom(a0, k0, i0, carry0) ==
    CHOOSE res \in
      { IF i > Len(a)
        THEN IF carry = 0 THEN << >> ELSE << carry >>
        ELSE LET p == a[i] * k + carry
             IN  << p % Base >> \o MulSmallFrom(a, k, i + 1, p \div Base)
        : a \in {a0}, k \in {k0}, i \in {i0}, carry \in {carry0} } : TRUE

\* a * 2^bits
BigShl(a0, bits0) ==
    CHOOSE res \in
      { IF a = << >> THEN a
        ELSE [i \in 1..(bits \div LimbBits) |-> 0]
             \o (IF bits % LimbBits = 0 THEN a
                 ELSE MulSmallFrom(a, 2 ^ (bits % LimbBits), 1, 0))
        : a \in {a0}, bits \in {bits0} } : TRUE

\* a times the digits j.. of b, those digits counted from place 0
RECURSIVE MulFrom(_, _, _)
MulFrom(a0, b0, j0) ==
    CHOOSE res \in
      { IF j > Len(b) THEN << >>
        ELSE IF b[j] = 0 THEN << 0 >> \o MulFrom(a, b, j + 1)
        ELSE AddFrom(MulSmallFrom(a, b[j], 1, 0), << 0 >> \o MulFrom(a, b, j + 1), 1, 0)
        : a \in {a0}, b \in {b0}, j \in {j0} } : TRUE

\* the digits i, i-1, .. 1 of floor((rem * Base^i + a) / k), for 0 < k < Base
RECURSIVE DivFrom(_, _, _, _)
DivFrom(a0, k0, i0, rem0) ==
    CHOOSE res \in
      { IF i = 0 THEN << >>
        ELSE DivFrom(a, k, i - 1, (rem * Base + a[i]) % k) \o << (rem * Base + a[i]) \div k >>
        : a \in {a0}, k \in {k0}, i \in {i0}, rem \in {rem0} } : TRUE

\* floor(a / 2^bits)
BigShr(a0, bits0) ==
    CHOOSE res \in
      { IF bits \div LimbBits >= Len(a) THEN << >>
        ELSE IF bits % LimbBits = 0 THEN SubSeq(a, bits \div LimbBits + 1, Len(a))
        ELSE Trim(DivFrom(SubSeq(a, bits \div LimbBits + 1, Len(a)), 2 ^ (bits % LimbBits),
                          Len(a) - bits \div LimbBits, 0))
        : a \in {a0}, bits \in {bits0} } : TRUE

BitLen(a0) ==
    CHOOSE res \in
      { IF a = << >> THEN 0
        ELSE LimbBits * (Len(a) - 1)
             + CHOOSE k \in 1..LimbBits : 2 ^ (k - 1) <= a[Len(a)] /\ a[Len(a)] < 2 ^ k
        : a \in {a0} } : TRUE

\* a binary64 number: sign s (1 or -1), mantissa m of MantissaBits bits (or
\* zero), exponent e; its value is s * m * 2^e
MantissaBits == 53

FZero == [s |-> 1, m |-> << >>, e |-> 0]

\* s * M0 * 2^e rounded to the nearest binary64, ties to even; sticky0 says
\* that the exact value is a little above M0 * 2^e.  (M and sticky are the
\* values of M0 and sticky0, computed once.)
RoundNearestEven(s, M0, e, sticky0) ==
    CHOOSE res \in
      { LET k == BitLen(M) - MantissaBits
            q == BigShr(M, k)
            half == (M[(k - 1) \div LimbBits + 1] \div 2 ^ ((k - 1) % LimbBits)) % 2
            below == \/ \E i \in 1..((k - 1) \div LimbBits) : M[i] # 0
                     \/ M[(k - 1) \div LimbBits + 1] % 2 ^ ((k - 1) % LimbBits) # 0
            up == half = 1 /\ (below \/ sticky \/ q[1] % 2 = 1)
            r == IF up THEN AddFrom(q, << 1 >>, 1, 0) ELSE q
        IN  IF M = << >> THEN FZero
            ELSE IF k <= 0 THEN [s |-> s, m |-> BigShl(M, -k), e |-> e + k]
            ELSE IF BitLen(r) > MantissaBits
                 THEN [s |-> s, m |-> BigShr(r, 1), e |-> e + k + 1]
                 ELSE [s |-> s, m |-> r, e |-> e + k]
        : M \in {M0}, sticky \in {sticky0} } : TRUE

\* float(k) for an integer -Base < k < Base
FromInt(k) ==
    IF k = 0 THEN FZero
    ELSE IF k < 0 THEN RoundNearestEven(-1, << -k >>, 0, FALSE)
    ELSE RoundNearestEven(1, << k >>, 0, FALSE)

\* -1, 0, 1 as s1 * m1 * 2^e1 is below, equal to, above s2 * m2 * 2^e2
ExactCmp(s1, m1, e1, s2, m2, e2) ==
    CHOOSE res \in
      { IF a = << >> /\ b = << >> THEN 0
        ELSE IF a = << >> THEN -s2
        ELSE IF b = << >> THEN s1
        ELSE IF s1 # s2 THEN s1
        ELSE s1 * CmpFrom(a, b, IF Len(a) > Len(b) THEN Len(a) ELSE Len(b))
        : a \in {BigShl(m1, IF e1 > e2 THEN e1 - e2 ELSE 0)},
          b \in {BigShl(m2, IF e2 > e1 THEN e2 - e1 ELSE 0)} } : TRUE

\* x0 + y0
FAdd(x0, y0) ==
    CHOOSE res \in
      { IF x.m = << >> THEN y
        ELSE IF y.m = << >> THEN x
        ELSE LET e0 == IF x.e < y.e THEN x.e ELSE y.e
                 c == ExactCmp(1, x.m, x.e, 1, y.m, y.e)
             IN  IF x.s = y.s
                 THEN RoundNearestEven(x.s,
                          AddFrom(BigShl(x.m, x.e - e0), BigShl(y.m, y.e - e0), 1, 0),
                          e0, FALSE)
                 ELSE IF c = 0 THEN FZero
                 ELSE IF c > 0
                 THEN RoundNearestEven(x.s,
                          Trim(SubFrom(BigShl(x.m, x.e - e0), BigShl(y.m, y.e - e0), 1, 0)),
                          e0, FALSE)
                 ELSE RoundNearestEven(y.s,
                          Trim(SubFrom(BigShl(y.m, y.e - e0), BigShl(x.m, x.e - e0), 1, 0)),
                          e0, FALSE)
        : x \in {x0}, y \in {y0} } : TRUE

\* x - y
FSub(x, y) == FAdd(x, [y EXCEPT !.s = -y.s])

\* x0 * y0
FMul(x0, y0) ==
    CHOOSE res \in
      { IF x.m = << >> \/ y.m = << >> THEN FZero
        ELSE RoundNearestEven(x.s * y.s, Trim(MulFrom(x.m, y.m, 1)), x.e + y.e, FALSE)
        : x \in {x0}, y \in {y0} } : TRUE

\* the quotient is first computed to GuardBits more bits than the mantissa has
GuardBits == 60

\* x0 / n for an integer 0 < n < Base
FDivInt(x0, n) ==
    CHOOSE res \in
      { IF x.m = << >> THEN FZero
        ELSE CHOOSE rounded \in
               { RoundNearestEven(x.s, q, x.e - GuardBits,
                                  MulSmallFrom(q, n, 1, 0) # BigShl(x.m, GuardBits))
                 : q \in { Trim(DivFrom(BigShl(x.m, GuardBits), n,
                                        Len(x.m) + GuardBits \div LimbBits, 0)) } } : TRUE
        : x \in {x0} } : TRUE

\* x0 < y0
FLess(x0, y0) ==
    CHOOSE res \in
      { ExactCmp(x.s, x.m, x.e, y.s, y.m, y.e) < 0 : x \in {x0}, y \in {y0} } : TRUE

\* sqrt(v0) < t for v0 >= 0 and an integer 0 < t < Base: the correctly
\* rounded root is below t exactly when the real root is below the midpoint
\* of t and the binary64 number just under t (a tie rounds to t, whose
\* mantissa is even), that is when v0 is below the square of that midpoint
SqrtLess(v0, t) ==
    CHOOSE res \in
      { LET pow2 == T.m = BigShl(<< 1 >>, MantissaBits - 1)
        IN  CHOOSE below \in
              { ExactCmp(v.s, v.m, v.e, 1, Trim(MulFrom(mid, mid, 1)),
                         2 * (IF pow2 THEN T.e - 2 ELSE T.e - 1)) < 0
                : mid \in { IF pow2 THEN Trim(SubFrom(BigShl(T.m, 2), << 1 >>, 1, 0))
                                    ELSE Trim(SubFrom(BigShl(T.m, 1), << 1 >>, 1, 0)) } } : TRUE
        : v \in {v0}, T \in {FromInt(t)} } : TRUE

----------------------------------------------------------------------------
(* numpy reductions as signal_analyzer.py calls them *)

\* the inner loop of numpy's add.reduce on a contiguous float64 array:
\* plain accumulation below 8 elements, 8 partial sums above
PairwiseBlock == 8

\* acc + a[i] + a[i + step] + .. up to a[last], added in this order
RECURSIVE SumSeq(_, _, _, _, _)
SumSeq(a, acc, i, step, last) ==
    IF i > last THEN acc
    ELSE CHOOSE res \in { SumSeq(a, sum, i + step, step, last) : sum \in {FAdd(acc, a[i])} } : TRUE

\* np.add.reduce(a0) for 1 <= Len(a0) <= 128: the result starts as the
\* identity 0.0 and the inner loop adds the pairwise sum of the array to it
pairwise_sum(a0) ==
    CHOOSE res \in
      { LET n == Len(a)
            full == n - (n % PairwiseBlock)
            r(j) == SumSeq(a, a[j], j + PairwiseBlock, PairwiseBlock, full)
        IN  IF n < PairwiseBlock THEN SumSeq(a, FZero, 1, 1, n)
            ELSE SumSeq(a, FAdd(FAdd(FAdd(r(1), r(2)), FAdd(r(3), r(4))),
                                FAdd(FAdd(r(5), r(6)), FAdd(r(7), r(8)))),
                        full + 1, 1, n)
        : a \in {a0} } : TRUE

\* the integers values[i..] as float64
RECURSIVE Floats(_, _)
Floats(values, i) ==
    IF i > Len(values) THEN << >>
    ELSE << FromInt(values[i]) >> \o Floats(values, i + 1)

\* np.mean of a list of integers
np_mean(values) == FDivInt(pairwise_sum(Floats(values, 1)), Len(values))

\* x = arr - arrmean; x = x * x, from index i on
RECURSIVE SquaredDeviations(_, _, _)
SquaredDeviations(values, arrmean, i) ==
    IF i > Len(values) THEN << >>
    ELSE << CHOOSE sq \in { FMul(x, x) : x \in {FSub(FromInt(values[i]), arrmean)} } : TRUE >>
         \o SquaredDeviations(values, arrmean, i + 1)

\* the value np.std takes the square root of: the mean of the squared
\* deviations from np.mean
np_var(values) ==
    CHOOSE res \in
      { FDivInt(pairwise_sum(SquaredDeviations(values, arrmean, 1)), Len(values))
        : arrmean \in {np_mean(values)} } : TRUE

----------------------------------------------------------------------------
(* signal_analyzer.analyze_signal_stability *)

\* lines 165, 170-178: the stability category of std_dev = np.std(signal_values)
stability_of(signal_values) ==
    CHOOSE stability \in
      { IF SqrtLess(variance, 2) THEN "Very Stable"
        ELSE IF SqrtLess(variance, 5) THEN "Stable"
        ELSE IF SqrtLess(variance, 10) THEN "Moderately Stable"
        ELSE "Unstable"
        : variance \in {np_var(signal_values)} } : TRUE

\* lines 180-195: the trend from the means of the two halves
trend_of(signal_values) ==
    IF Len(signal_values) >= 10
    THEN CHOOSE trend \in
           { IF FLess(FromInt(3), FSub(second_mean, first_mean)) THEN "Improving"
             ELSE IF FLess(FromInt(3), FSub(first_mean, second_mean)) THEN "Deteriorating"
             ELSE "Stable"
             : first_mean \in
                 {np_mean(SubSeq(signal_values, 1, Len(signal_values) \div 2))},
               second_mean \in
                 {np_mean(SubSeq(signal_values, Len(signal_values) \div 2 + 1,
                                 Len(signal_values)))} } : TRUE
    ELSE "Insufficient Data"

\* line 160: signal_values = [s[1] for s in signals]
values_of(samples) == [ i \in DOMAIN samples |-> samples[i][2] ]

\* variant: two samples are enough
too_few_below_two(sig) == sig.none \/ Len(sig.list) = 0 \/ Len(sig.list) < 2

\* line 156: not signals or len(signals) < 3
too_few(sig) == sig.none \/ Len(sig.list) = 0 \/ Len(sig.list) < 3

\* analyze_signal_stability, lines 146-206
analyze_signal_stability(sig) ==
    IF too_few(sig)
    THEN [ called |-> TRUE, stability |-> "Unknown", range |-> 0, trend |-> "Unknown" ]
    ELSE LET signal_values == values_of(sig.list)
             level == { signal_values[i] : i \in DOMAIN signal_values }
         IN  [ called    |-> TRUE,
               stability |-> stability_of(signal_values),
               range     |-> (CHOOSE hi \in level : \A v \in level : v <= hi)
                             - (CHOOSE lo \in level : \A v \in level : lo <= v),
               trend     |-> trend_of(signal_values) ]

----------------------------------------------------------------------------
(* signal_analyzer.py: the report and the SIGINT handler *)

\* generate_signal_report before any call
NoReport == [ calls |-> 0, written |-> FALSE, total_networks |-> 0, networks |-> << >> ]

\* generate_signal_report, lines 209-262: whether it raised, and the report
\* after it.  min() of line 252 raises ValueError on an empty store.  The
\* entries are kept by station; their order, by mean level, is left out.
generate_signal_report(nets, hist, file) ==
    IF DOMAIN nets = {}
    THEN [ raised |-> TRUE, report |-> file ]
    ELSE [ raised |-> FALSE,
           report |->
             [ calls          |-> file.calls,
               written        |-> TRUE,
               total_networks |-> Cardinality(DOMAIN nets),
               networks       |->
                 [ b \in { s \in DOMAIN nets : s \in DOMAIN hist /\ Len(hist[s]) > 0 } |->
                     analyze_signal_stability([ none |-> FALSE, list |-> hist[b] ]) ] ] ]

\* variant: SIGINT has its default handler; KeyboardInterrupt takes main to
\* the report call of line 460
signal_handler_default(flag, position, calls) ==
    [ interrupted |-> flag, pc |-> "reporting", calls |-> calls + 1 ]

\* signal_handler, lines 42-46, installed at line 67: the flag is set, main
\* goes on where it was
signal_handler(flag, position, calls) ==
    [ interrupted |-> TRUE, pc |-> position, calls |-> calls ]

----------------------------------------------------------------------------
(* The scan session: every callback runs to completion *)

Init ==
    /\ networks = << >>
    /\ hidden_networks = {}
    /\ now = 0
    /\ uncovered = << >>
    /\ pc = "sniff"
    /\ scan_data = NoFile
    /\ hpc = "idle"
    /\ pkt = NoPacket
    /\ ssid_l = EmptyText
    /\ network_data = NoData
    /\ result = NoResult
    /\ loaded = NoLoaded
    /\ distribution = NoDistribution
    /\ analyzer_networks = << >>
    /\ signal_history = << >>
    /\ signals = NoSignals
    /\ analysis = NoAnalysis
    /\ seen = {}
    /\ ingested = << >>
    /\ interrupted = FALSE
    /\ current_time = 0
    /\ report = NoReport

\* process_packet on a beacon frame
Beacon(packet) ==
    /\ pc = "sniff" /\ hpc = "idle"
    /\ packet.kind = "beacon"
    /\ \E t1 \in Readings(now) : \E t2 \in Readings(t1) :
          LET r == process_beacon(networks, hidden_networks, packet, t1, t2) IN
          /\ packet.addr2 \in DOMAIN networks => t2 = t1
          /\ networks' = r.networks
          /\ hidden_networks' = r.hidden_networks
          /\ now' = t2
    /\ seen' = seen \cup {packet.addr2}
    /\ UNCHANGED << uncovered, pc, scan_data, hpc, pkt, ssid_l, classVars, analyzerVars, stabVars >>

\* process_packet on a probe response frame
ProbeResp(packet) ==
    /\ pc = "sniff" /\ hpc = "idle"
    /\ packet.kind = "probe_resp"
    /\ \E t \in Readings(now) :
          LET r == process_probe_response(networks, hidden_networks, uncovered, packet, t) IN
          /\ ~probe_resolves(networks, hidden_networks, packet) => t = now
          /\ networks' = r.networks
          /\ hidden_networks' = r.hidden_networks
          /\ uncovered' = r.uncovered
          /\ now' = t
    /\ UNCHANGED << pc, scan_data, hpc, pkt, ssid_l, classVars, analyzerVars, stabVars, seen >>

\* main, lines 370-373: sniff returned because the scan time is over
ScanTimeout ==
    /\ pc = "sniff" /\ hpc = "idle"
    /\ LET r == save_results(networks, hidden_networks, scan_data, now) IN
          /\ networks' = r.networks
          /\ scan_data' = r.scan_data
          /\ pc' = IF r.raised THEN "error" ELSE "saved"
    /\ UNCHANGED << hidden_networks, now, uncovered, hpc, pkt, ssid_l, classVars, analyzerVars, stabVars, seen >>

\* main returns after its last print
MainReturn ==
    /\ pc = "saved"
    /\ pc' = "finished"
    /\ UNCHANGED << networks, hidden_networks, now, uncovered, scan_data,
                    hpc, pkt, ssid_l, classVars, analyzerVars, stabVars, seen >>

\* SIGINT is delivered: signal_handler starts
SigInt ==
    /\ pc \in {"sniff", "saved"}
    /\ pc' = "handler"
    /\ UNCHANGED << networks, hidden_networks, now, uncovered, scan_data,
                    hpc, pkt, ssid_l, classVars, analyzerVars, stabVars, seen >>

\* signal_handler, lines 46-50
SignalHandlerRun ==
    /\ pc = "handler"
    /\ LET r == save_results(networks, hidden_networks, scan_data, now) IN
          /\ networks' = r.networks
          /\ scan_data' = r.scan_data
          /\ pc' = IF r.raised THEN "error" ELSE "exited"
    /\ UNCHANGED << hidden_networks, now, uncovered, hpc, pkt, ssid_l, classVars, analyzerVars, stabVars, seen >>

Next ==
    \/ \E packet \in Packets : Beacon(packet)
    \/ \E packet \in Packets : ProbeResp(packet)
    \/ ScanTimeout
    \/ MainReturn
    \/ SigInt
    \/ SignalHandlerRun

Spec == Init /\ [][Next]_vars

----------------------------------------------------------------------------
(* The same session with the callbacks taken one statement at a time: a  *)
(* SIGINT runs signal_handler between any two statements of the callback *)
(* it interrupts.                                                         *)

Return ==
    /\ hpc' = "idle"
    /\ pkt' = NoPacket
    /\ ssid_l' = EmptyText

\* process_beacon, lines 91-102
BeaconEnter(packet) ==
    /\ pc = "sniff" /\ hpc = "idle"
    /\ packet.kind = "beacon"
    /\ pkt' = packet
    /\ IF packet.addr2 \in DOMAIN networks
       THEN hpc' = "line94" /\ ssid_l' = ssid_l
       ELSE hpc' = "line105" /\ ssid_l' = beacon_ssid(packet)
    /\ seen' = seen \cup {packet.addr2}
    /\ UNCHANGED << networks, hidden_networks, now, uncovered, pc, scan_data, classVars, analyzerVars, stabVars >>

BeaconLine94 ==
    /\ pc = "sniff" /\ hpc = "line94"
    /\ networks' = [networks EXCEPT ![pkt.addr2].signal = get_signal_strength(pkt)]
    /\ hpc' = "line95"
    /\ UNCHANGED << hidden_networks, now, uncovered, pc, scan_data, pkt, ssid_l, classVars, analyzerVars, stabVars, seen >>

BeaconLine95 ==
    /\ pc = "sniff" /\ hpc = "line95"
    /\ \E t \in Readings(now) :
          /\ networks' = [networks EXCEPT ![pkt.addr2].last_seen = Float(t)]
          /\ now' = t
    /\ Return
    /\ UNCHANGED << hidden_networks, uncovered, pc, scan_data, classVars, analyzerVars, stabVars, seen >>

BeaconLine105 ==
    /\ pc = "sniff" /\ hpc = "line105"
    /\ IF is_empty_ssid(ssid_l)
       THEN ssid_l' = HiddenNetworkText /\ hpc' = "line107"
       ELSE ssid_l' = ssid_l /\ hpc' = "line122"
    /\ UNCHANGED << networks, hidden_networks, now, uncovered, pc, scan_data, pkt, classVars, analyzerVars, stabVars, seen >>

BeaconLine107 ==
    /\ pc = "sniff" /\ hpc = "line107"
    /\ hidden_networks' = hidden_networks \cup {pkt.addr2}
    /\ hpc' = "line122"
    /\ UNCHANGED << networks, now, uncovered, pc, scan_data, pkt, ssid_l, classVars, analyzerVars, stabVars, seen >>

BeaconLine122 ==
    /\ pc = "sniff" /\ hpc = "line122"
    /\ \E t1 \in Readings(now) : \E t2 \in Readings(t1) :
          /\ networks' = Put(networks, pkt.addr2, new_record(pkt, ssid_l, t1, t2))
          /\ now' = t2
    /\ Return
    /\ UNCHANGED << hidden_networks, uncovered, pc, scan_data, classVars, analyzerVars, stabVars, seen >>

\* process_probe_response, lines 141-150
ProbeEnter(packet) ==
    /\ pc = "sniff" /\ hpc = "idle"
    /\ packet.kind = "probe_resp"
    /\ IF probe_resolves(networks, hidden_networks, packet)
       THEN pkt' = packet /\ ssid_l' = packet.info.text /\ hpc' = "line152"
       ELSE UNCHANGED << pkt, ssid_l, hpc >>
    /\ UNCHANGED << networks, hidden_networks, now, uncovered, pc, scan_data, classVars, analyzerVars, stabVars, seen >>

ProbeLine152 ==
    /\ pc = "sniff" /\ hpc = "line152"
    /\ networks' = [networks EXCEPT ![pkt.addr2].ssid = ssid_l]
    /\ hpc' = "line153"
    /\ UNCHANGED << hidden_networks, now, uncovered, pc, scan_data, pkt, ssid_l, classVars, analyzerVars, stabVars, seen >>

ProbeLine153 ==
    /\ pc = "sniff" /\ hpc = "line153"
    /\ networks' = [networks EXCEPT ![pkt.addr2].hidden = FALSE]
    /\ hpc' = "line154"
    /\ UNCHANGED << hidden_networks, now, uncovered, pc, scan_data, pkt, ssid_l, classVars, analyzerVars, stabVars, seen >>

ProbeLine154 ==
    /\ pc = "sniff" /\ hpc = "line154"
    /\ \E t \in Readings(now) :
          /\ networks' = [networks EXCEPT ![pkt.addr2].last_seen = Float(t)]
          /\ now' = t
    /\ hpc' = "line155"
    /\ UNCHANGED << hidden_networks, uncovered, pc, scan_data, pkt, ssid_l, classVars, analyzerVars, stabVars, seen >>

ProbeLine155 ==
    /\ pc = "sniff" /\ hpc = "line155"
    /\ hidden_networks' = hidden_networks \ {pkt.addr2}
    /\ hpc' = "line158"
    /\ UNCHANGED << networks, now, uncovered, pc, scan_data, pkt, ssid_l, classVars, analyzerVars, stabVars, seen >>

ProbeLine158 ==
    /\ pc = "sniff" /\ hpc = "line158"
    /\ uncovered' = Append(uncovered, <<ssid_l, pkt.addr2>>)
    /\ Return
    /\ UNCHANGED << networks, hidden_networks, now, pc, scan_data, classVars, analyzerVars, stabVars, seen >>

NextSteps ==
    \/ \E packet \in Packets : BeaconEnter(packet)
    \/ BeaconLine94
    \/ BeaconLine95
    \/ BeaconLine105
    \/ BeaconLine107
    \/ BeaconLine122
    \/ \E packet \in Packets : ProbeEnter(packet)
    \/ ProbeLine152
    \/ ProbeLine153
    \/ ProbeLine154
    \/ ProbeLine155
    \/ ProbeLine158
    \/ ScanTimeout
    \/ MainReturn
    \/ SigInt
    \/ SignalHandlerRun

SpecSteps == Init /\ [][NextSteps]_vars

----------------------------------------------------------------------------
(* The scan session when frames without a transmitter address arrive *)

NextMalformed ==
    \/ \E packet \in PacketsWithMalformed : Beacon(packet)
    \/ \E packet \in PacketsWithMalformed : ProbeResp(packet)
    \/ ScanTimeout
    \/ MainReturn
    \/ SigInt
    \/ SignalHandlerRun

SpecMalformed == Init /\ [][NextMalformed]_vars

----------------------------------------------------------------------------
(* Either program is started: wifi_scanner.main or signal_analyzer.main *)

InitStores ==
    /\ networks = << >>
    /\ hidden_networks = {}
    /\ now = 0
    /\ uncovered = << >>
    /\ pc \in {"sniff", "capture"}
    /\ scan_data = NoFile
    /\ hpc = "idle"
    /\ pkt = NoPacket
    /\ ssid_l = EmptyText
    /\ network_data = NoData
    /\ result = NoResult
    /\ loaded = NoLoaded
    /\ distribution = NoDistribution
    /\ analyzer_networks = << >>
    /\ signal_history = << >>
    /\ signals = NoSignals
    /\ analysis = NoAnalysis
    /\ seen = {}
    /\ ingested = << >>
    /\ interrupted = FALSE
    /\ current_time = 0
    /\ report = NoReport

NextStores ==
    \/ Next
    \/ \E packet \in Packets : AnalyzerBeacon(packet)

SpecStores == InitStores /\ [][NextStores]_vars

----------------------------------------------------------------------------
(* Classifying one record: the records enhanced_network_classification   *)
(* is handed, from a scan or from an input file.                          *)

CorpGuestText == <<"C","o","r","p","-","G","u","e","s","t">>

CorporateFreeWifiText == <<"C","O","R","P","O","R","A","T","E","-","F","R","E","E","W","I","F","I">>

CorporateOfficeText == <<"C","o","r","p","o","r","a","t","e"," ","O","f","f","i","c","e">>

MiFiText == <<"M","i","F","i","-","2","2","0","0">>

LinksysText == <<"l","i","n","k","s","y","s">>

SamsungText == <<"S","a","m","s","u","n","g">>

NetgearText == <<"N","e","t","g","e","a","r">>

CiscoLinksysText == <<"C","i","s","c","o","-","L","i","n","k","s","y","s">>

ClassifierInputs ==
    [ ssid         : { HiddenNetworkText, OfficeNetText, GuestWifiText, CorpGuestText,
                       CorporateFreeWifiText, CorporateOfficeText, MiFiText, LinksysText },
      encryption   : { "Open", "WEP", "WPA2", "WPA2/WPA3" },
      hidden       : BOOLEAN,
      manufacturer : { UnknownText, CiscoText, SamsungText, NetgearText, CiscoLinksysText },
      signal       : { -30, -60, -90, -100 },
      has_signal   : { TRUE },
      type         : { "STANDARD", "PUBLIC" } ]
    \cup
    \* records without a "signal" key
    [ ssid         : { HiddenNetworkText, OfficeNetText, LinksysText },
      encryption   : { "Open", "WPA2" },
      hidden       : BOOLEAN,
      manufacturer : { UnknownText, CiscoText },
      signal       : { 0 },
      has_signal   : { FALSE },
      type         : { "STANDARD" } ]

InitClassify ==
    /\ networks = << >>
    /\ hidden_networks = {}
    /\ now = 0
    /\ uncovered = << >>
    /\ pc = "sniff"
    /\ scan_data = NoFile
    /\ hpc = "idle"
    /\ pkt = NoPacket
    /\ ssid_l = EmptyText
    /\ network_data \in ClassifierInputs
    /\ result = NoResult
    /\ loaded = NoLoaded
    /\ distribution = NoDistribution
    /\ analyzer_networks = << >>
    /\ signal_history = << >>
    /\ signals = NoSignals
    /\ analysis = NoAnalysis
    /\ seen = {}
    /\ ingested = << >>
    /\ interrupted = FALSE
    /\ current_time = 0
    /\ report = NoReport

\* enhanced_network_classification, line 176; a caller may score the same
\* record again
Classify ==
    /\ ~result.again
    /\ LET r == classify_network(network_data) IN
          result' = [called |-> TRUE, type |-> r.type, confidence10 |-> r.confidence10,
                     again |-> result.called]
    /\ UNCHANGED << network_data, loaded, distribution, scanVars, analyzerVars, stabVars, seen >>

NextClassify == Classify

SpecClassify == InitClassify /\ [][NextClassify]_vars

----------------------------------------------------------------------------
(* Properties *)

\* The identifiers of the records whose hidden flag is set
ConcealedIds == { b \in DOMAIN networks : networks[b].hidden }

\* C1: in every state of a scan session hidden_networks is exactly the set
\* of identifiers of the records whose hidden flag is true, also for a
\* station whose beacon advertises the text "[Hidden Network]" itself.
C1_ConcealedSetExact == hidden_networks = ConcealedIds

\* C2: a station that a probe response has resolved (it has a line in the
\* uncovered log) is never again in hidden_networks and never again has
\* hidden = TRUE, whatever events follow.
C2_ResolverMonotonic ==
    \A i \in DOMAIN uncovered :
        LET b == uncovered[i][2] IN
        /\ b \notin hidden_networks
        /\ b \in DOMAIN networks
        /\ ~networks[b].hidden

\* a resolved station whose record a later beacon has updated: channel 6
\* records are created with signal -35, only a later beacon sets -100
C2_Witness ==
    \E i \in DOMAIN uncovered :
        LET b == uncovered[i][2] IN
        /\ b \in DOMAIN networks
        /\ networks[b].channel = 6
        /\ networks[b].signal = -100
        /\ networks[b].first_seen = Float(0)
        /\ networks[b].last_seen = Float(1)
        /\ ~networks[b].hidden

\* the probe response names a station of hidden_networks with a real name
Discloses(packet) ==
    /\ packet.kind = "probe_resp"
    /\ packet.info.ok
    /\ packet.addr2 \in hidden_networks
    /\ packet.info.text # EmptyText
    /\ packet.info.text # HiddenNetworkText

\* C3: a probe response for an id in hidden_networks with a non-empty name
\* other than the sentinel sets ssid to that name, hidden to FALSE and
\* last_seen to the time of the event, removes the id from hidden_networks
\* and logs one discovery line.
C3_DisclosureResolves ==
    [][ \A packet \in Packets :
          (Discloses(packet) /\ ProbeResp(packet)) =>
              /\ networks'[packet.addr2].ssid = packet.info.text
              /\ networks'[packet.addr2].hidden = FALSE
              /\ networks'[packet.addr2].last_seen = Float(now')
              /\ packet.addr2 \notin hidden_networks'
              /\ uncovered' = Append(uncovered, <<packet.info.text, packet.addr2>>)
      ]_vars

\* a nameless beacon then a disclosure: visible as OFFICE-NET, not concealed
C3_Witness ==
    \E b \in DOMAIN networks :
        /\ networks[b].ssid = OfficeNetText
        /\ ~networks[b].hidden
        /\ b \notin hidden_networks
        /\ uncovered = << <<OfficeNetText, b>> >>

\* the beacon names a station whose record is concealed
NamesConcealed(packet) ==
    /\ packet.kind = "beacon"
    /\ packet.info.ok
    /\ packet.info.text # EmptyText
    /\ packet.info.text # HiddenNetworkText
    /\ packet.addr2 \in DOMAIN networks
    /\ networks[packet.addr2].hidden

NotDisclosing(packet) ==
    /\ packet.kind = "probe_resp"
    /\ packet.info.ok
    /\ \/ packet.addr2 \notin hidden_networks
       \/ packet.info.text = EmptyText
       \/ packet.info.text = HiddenNetworkText

\* C5: a probe response whose id is not in hidden_networks, or whose name is
\* empty or the sentinel, changes nothing: same records, same
\* hidden_networks, nothing logged, the session goes on.
C5_DisclosureNoOp ==
    [][ \A packet \in Packets :
          (NotDisclosing(packet) /\ ProbeResp(packet)) =>
              /\ networks' = networks
              /\ hidden_networks' = hidden_networks
              /\ uncovered' = uncovered
              /\ pc' = pc
      ]_vars

\* the session is receiving and holds a visible and a concealed station
C5_Witness ==
    /\ pc = "sniff"
    /\ \E b \in DOMAIN networks : b \notin hidden_networks /\ ~networks[b].hidden
    /\ \E b \in DOMAIN networks : b \in hidden_networks

\* C6: every record has hidden = TRUE exactly when its ssid is the sentinel.
C6_HiddenIffSentinel ==
    \A b \in DOMAIN networks :
        networks[b].hidden = (networks[b].ssid = HiddenNetworkText)

\* one station resolved to a name, another still concealed
C6_Witness ==
    /\ \E i \in DOMAIN uncovered :
          /\ ~networks[uncovered[i][2]].hidden
          /\ networks[uncovered[i][2]].ssid = GuestWifiText
    /\ \E b \in DOMAIN networks : networks[b].hidden

\* C7: whenever signal_handler runs, also between two statements of a
\* callback, the store it exports is valid.  Stated for the part of the
\* invariants that an interrupted callback breaks: every id of
\* hidden_networks has a record, that record is concealed, and every record
\* has hidden = TRUE exactly when its ssid is the sentinel.
C7_HandlerSeesValidStore ==
    pc = "handler" =>
        /\ \A b \in hidden_networks : b \in DOMAIN networks /\ networks[b].hidden
        /\ \A b \in DOMAIN networks :
              networks[b].hidden = (networks[b].ssid = HiddenNetworkText)

\* C8: save_results leaves the store as it was: every record keeps its
\* field values, first_seen and last_seen included.
C8_ExportLeavesStore ==
    [][ (ScanTimeout \/ SignalHandlerRun) => networks' = networks ]_vars

\* the categories that reach the maximum score of the classified record
TiedTypes ==
    LET scores == compute_scores(network_data) IN
    { t \in DOMAIN scores : scores[t] = max_of(scores) }

MaxScore == max_of(compute_scores(network_data))

\* the first of a non-empty set of categories in the tie-break priority order
FirstInOrder(types) ==
    LET order == << "POSSIBLE_OFFICIAL", "ENTERPRISE", "MOBILE_HOTSPOT", "PUBLIC",
                    "IOT", "ISP_PROVIDED", "STANDARD" >>
    IN  order[CHOOSE i \in DOMAIN order :
                  /\ order[i] \in types
                  /\ \A j \in 1..(i - 1) : order[j] \notin types]

\* C9: when two or more categories share a maximum score greater than 0,
\* classify_network returns the tied category that comes first in the
\* priority order, with confidence min(0.7, max/10), so never above 0.7.
C9_TieBreak ==
    (result.called /\ MaxScore > 0 /\ Cardinality(TiedTypes) >= 2) =>
        /\ result.type = FirstInOrder(TiedTypes)
        /\ result.confidence10 = Min(7, MaxScore)
        /\ result.confidence10 <= 7

\* ENTERPRISE and PUBLIC tied at a score above 7: ENTERPRISE at 0.7
C9_Witness ==
    /\ result.called
    /\ TiedTypes = {"ENTERPRISE", "PUBLIC"}
    /\ MaxScore >= 8
    /\ result.type = "ENTERPRISE"
    /\ result.confidence10 = 7

\* C10: when exactly one category reaches a maximum score greater than 0,
\* classify_network returns it with confidence min(1.0, max/10), which lies
\* in (0, 1] and is 1.0 exactly when the maximum is at least 10.
C10_ClearWinner ==
    (result.called /\ MaxScore > 0 /\ Cardinality(TiedTypes) = 1) =>
        /\ result.type \in TiedTypes
        /\ result.confidence10 = Min(10, MaxScore)
        /\ result.confidence10 \in 1..10
        /\ (result.confidence10 = 10) = (MaxScore >= 10)

\* a single winner with a score above 10: confidence 1.0
C10_Witness ==
    /\ result.called
    /\ Cardinality(TiedTypes) = 1
    /\ MaxScore > 10
    /\ result.confidence10 = 10

\* the record carries no evidence: visible, cipher neither strong nor open,
\* no keyword in the name, no vendor class, signal between the thresholds or
\* not available
NoEvidence ==
    /\ ~network_data.hidden
    /\ network_data.encryption \notin {"WPA2/WPA3", "Open"}
    /\ \A t \in Range(ScoreTypes) :
          /\ ssid_score(Upper(network_data.ssid), t) = 0
          /\ manufacturer_score(Upper(network_data.manufacturer), t) = 0
    /\ \/ ~network_data.has_signal
       \/ (network_data.signal >= -80 /\ network_data.signal <= -40)

\* C11: a record that carries no evidence is classified (STANDARD, 0.0),
\* also when its signal field is missing.
C11_NoEvidenceIsStandard ==
    (result.called /\ NoEvidence) =>
        (result.type = "STANDARD" /\ result.confidence10 = 0)

----------------------------------------------------------------------------
(* analyze_signal_stability on one argument *)

MaxShortLen == 4

BandLevels == {-30, -40, -46, -50, -51}

TrendLevels == {-61, -62, -65}

NineLevels == {-60, -70, -71, -75}

NinePrefix == << -70, -70, -70, -70, -70 >>

\* the (timestamp, signal) pairs of a capture with these signal levels
SamplesOf(levels) == [ i \in DOMAIN levels |-> << i, levels[i] >> ]

\* a half of a capture during which the level changes at most once: k
\* times x, then y
Halves(len) ==
    { [ i \in 1..len |-> IF i <= k THEN x ELSE y ]
      : x \in TrendLevels, y \in TrendLevels, k \in 0..len }

LevelSequences ==
    \* short captures of every length up to MaxShortLen
    UNION { [1..n -> BandLevels] : n \in 0..MaxShortLen }
    \* nine samples: five equal ones, then four
    \cup { NinePrefix \o tail : tail \in [1..4 -> NineLevels] }
    \* ten and eleven samples, each half with at most one change of level
    \cup { first \o second : first \in Halves(5), second \in Halves(5) \cup Halves(6) }
    \cup { << -50, -51, -49, -50, -52 >>,
           << -50, -50, -50, -50, -50, -60, -60, -60, -60, -60 >> }

StabilityInputs ==
    { NoSignals } \cup { [ none |-> FALSE, list |-> SamplesOf(levels) ] : levels \in LevelSequences }

InitStability ==
    /\ networks = << >>
    /\ hidden_networks = {}
    /\ now = 0
    /\ uncovered = << >>
    /\ pc = "report"
    /\ scan_data = NoFile
    /\ hpc = "idle"
    /\ pkt = NoPacket
    /\ ssid_l = EmptyText
    /\ network_data = NoData
    /\ result = NoResult
    /\ loaded = NoLoaded
    /\ distribution = NoDistribution
    /\ analyzer_networks = << >>
    /\ signal_history = << >>
    /\ signals \in StabilityInputs
    /\ analysis = NoAnalysis
    /\ seen = {}
    /\ ingested = << >>
    /\ interrupted = FALSE
    /\ current_time = 0
    /\ report = NoReport

\* generate_signal_report, line 234: the call of analyze_signal_stability
Analyze ==
    /\ pc = "report"
    /\ ~analysis.called
    /\ analysis' = analyze_signal_stability(signals)
    /\ UNCHANGED << signals, scanVars, classVars, analyzerVars, seen >>

SpecStability == InitStability /\ [][Analyze]_vars

----------------------------------------------------------------------------
(* The distribution of the categories of a file of records *)

MaxRecords == 3

\* a file of records without a distribution, or a file that carries a
\* distribution and no records
LoadedInputs ==
    { [ NoLoaded EXCEPT !.networks = list ] :
          list \in UNION { [1..n -> TypeInputs] : n \in 0..MaxRecords } }
    \cup { [ NoLoaded EXCEPT !.has_distribution = TRUE, !.distribution["STANDARD"] = n ] :
             n \in {1, 2} }

InitDistribution ==
    /\ networks = << >>
    /\ hidden_networks = {}
    /\ now = 0
    /\ uncovered = << >>
    /\ pc = "distribution"
    /\ scan_data = NoFile
    /\ hpc = "idle"
    /\ pkt = NoPacket
    /\ ssid_l = EmptyText
    /\ network_data = NoData
    /\ result = NoResult
    /\ loaded \in LoadedInputs
    /\ distribution = NoDistribution
    /\ analyzer_networks = << >>
    /\ signal_history = << >>
    /\ signals = NoSignals
    /\ analysis = NoAnalysis
    /\ seen = {}
    /\ ingested = << >>
    /\ interrupted = FALSE
    /\ current_time = 0
    /\ report = NoReport

\* network_classifier.main, line 399, and network_types.main on the same
\* records
Distribute ==
    /\ pc = "distribution"
    /\ ~distribution.called
    /\ distribution' =
          [ called     |-> TRUE,
            classifier |-> analyze_network_distribution(loaded.networks),
            chart      |-> calculate_distribution(loaded) ]
    /\ UNCHANGED << network_data, result, loaded, scanVars, analyzerVars, stabVars, seen >>

SpecDistribution == InitDistribution /\ [][Distribute]_vars

----------------------------------------------------------------------------
(* The signal analysis session, signal_analyzer.main *)

\* line 409: end_time = last_sample_time + args.duration, the session
\* starting at time 0; a capture interval is one tick long
end_time == MaxTime + 1

InitSession ==
    /\ networks = << >>
    /\ hidden_networks = {}
    /\ now = 0
    /\ uncovered = << >>
    /\ pc = "loop"
    /\ scan_data = NoFile
    /\ hpc = "idle"
    /\ pkt = NoPacket
    /\ ssid_l = EmptyText
    /\ network_data = NoData
    /\ result = NoResult
    /\ loaded = NoLoaded
    /\ distribution = NoDistribution
    /\ analyzer_networks = << >>
    /\ signal_history = << >>
    /\ signals = NoSignals
    /\ analysis = NoAnalysis
    /\ seen = {}
    /\ ingested = << >>
    /\ interrupted = FALSE
    /\ current_time = 0
    /\ report = NoReport

\* line 417: the loop condition; sniff starts (line 419) or the loop is left
\* and generate_signal_report is called (line 439)
LoopTest ==
    /\ pc = "loop"
    /\ IF current_time < end_time /\ ~interrupted
       THEN pc' = "capture" /\ report' = report
       ELSE pc' = "reporting" /\ report' = [ report EXCEPT !.calls = @ + 1 ]
    /\ UNCHANGED << networks, hidden_networks, now, uncovered, scan_data, hpc, pkt, ssid_l,
                    classVars, stabVars, analyzer_networks, signal_history, ingested,
                    interrupted, current_time, seen >>

\* lines 419-427: sniff returns when its interval is over, and main reads
\* the clock
SniffReturn ==
    /\ pc = "capture"
    /\ \E t \in (current_time + 1)..end_time :
          /\ t >= now
          /\ now' = t
          /\ current_time' = t
    /\ pc' = "loop"
    /\ UNCHANGED << networks, hidden_networks, uncovered, scan_data, hpc, pkt, ssid_l,
                    classVars, stabVars, analyzer_networks, signal_history, ingested,
                    interrupted, report, seen >>

\* SIGINT is delivered while main is in its try block
AnalyzerSigInt ==
    /\ pc \in {"loop", "capture", "reporting"}
    /\ LET r == signal_handler(interrupted, pc, report.calls) IN
          /\ interrupted' = r.interrupted
          /\ pc' = r.pc
          /\ report' = [ report EXCEPT !.calls = r.calls ]
    /\ UNCHANGED << networks, hidden_networks, now, uncovered, scan_data, hpc, pkt, ssid_l,
                    classVars, stabVars, analyzer_networks, signal_history, ingested,
                    current_time, seen >>

\* lines 439-456: generate_signal_report runs and main returns, or the
\* exception is caught at line 462 and the process exits with status 1
ReportRun ==
    /\ pc = "reporting"
    /\ LET r == generate_signal_report(analyzer_networks, signal_history, report) IN
          /\ report' = r.report
          /\ pc' = IF r.raised THEN "failed" ELSE "finished"
    /\ UNCHANGED << networks, hidden_networks, now, uncovered, scan_data, hpc, pkt, ssid_l,
                    classVars, stabVars, analyzer_networks, signal_history, ingested,
                    interrupted, current_time, seen >>

\* the beacons sniff hands to process_packet during a session: one station
\* whose frames carry a signal reading and one whose frames carry none, both
\* under one name (the name plays no part in the loop or in the report)
SessionPackets ==
    { packet \in Packets :
        /\ packet.info = [ok |-> TRUE, text |-> OfficeNetText]
        /\ packet.radio = IF packet.addr2 = "AA:1" THEN OpenFrame ELSE RsnFrame }

NextSession ==
    \/ LoopTest
    \/ \E packet \in SessionPackets : AnalyzerBeacon(packet)
    \/ SniffReturn
    \/ AnalyzerSigInt
    \/ ReportRun

\* main runs on, and sniff returns after its timeout
SpecSession ==
    /\ InitSession
    /\ [][NextSession]_vars
    /\ WF_vars(LoopTest)
    /\ WF_vars(SniffReturn)
    /\ WF_vars(ReportRun)

----------------------------------------------------------------------------
(* The station stores of both programs *)

\* C12: the store holds exactly one record per station whose beacon was
\* handled, in the scanner and in the analyzer; since the set of stations
\* seen only grows, no record is ever removed and a repeated station never
\* adds a second record.
C12_OneRecordPerStation ==
    IF pc = "capture"
    THEN /\ DOMAIN analyzer_networks = seen
         /\ DOMAIN signal_history = seen
         /\ \A b \in seen : analyzer_networks[b].bssid = b
    ELSE /\ DOMAIN networks = seen
         /\ \A b \in seen : networks[b].bssid = b

\* both stations were seen and one of them more than once
C12_Witness ==
    /\ pc = "capture"
    /\ Cardinality(seen) = 2
    /\ Cardinality(DOMAIN analyzer_networks) = 2
    /\ \E b \in seen : Len(ingested[b]) >= 2

\* a step of the scanner in which a beacon of a known or new station was
\* handled: the session goes on, nothing was disclosed and nothing exported
ScannerUpsertStep ==
    /\ pc = "sniff" /\ pc' = "sniff"
    /\ uncovered' = uncovered
    /\ networks' # networks

\* a step of the analyzer in which a beacon was handled
AnalyzerUpsertStep == pc = "capture" /\ ingested' # ingested

\* the station of the beacon the analyzer handled in this step
Upserted(b) ==
    \/ b \notin DOMAIN ingested
    \/ ingested'[b] # ingested[b]

\* C13: a beacon of a station that already has a record changes neither the
\* record's first_seen nor its ssid, in the scanner and in the analyzer; in
\* the analyzer it appends one sample even when the (timestamp, signal) pair
\* repeats the previous one, and first_seen stays the time of the first sample.
C13_UpsertKeepsFirstSeenAndName ==
    [][ /\ ScannerUpsertStep =>
              \A b \in DOMAIN networks :
                  /\ networks'[b].first_seen = networks[b].first_seen
                  /\ networks'[b].ssid = networks[b].ssid
        /\ AnalyzerUpsertStep =>
              \A b \in DOMAIN analyzer_networks :
                  /\ analyzer_networks'[b].first_seen = analyzer_networks[b].first_seen
                  /\ analyzer_networks'[b].ssid = analyzer_networks[b].ssid
                  /\ analyzer_networks'[b].first_seen = Float(signal_history'[b][1][1])
                  /\ Upserted(b) =>
                        /\ Len(signal_history'[b]) = Len(signal_history[b]) + 1
                        /\ Len(analyzer_networks'[b].signals) =
                              Len(analyzer_networks[b].signals) + 1
      ]_vars

\* a station of the analyzer holds the same (timestamp, signal) pair twice
C13_Witness ==
    /\ pc = "capture"
    /\ \E b \in DOMAIN signal_history :
          /\ Len(signal_history[b]) >= 2
          /\ signal_history[b][1] = signal_history[b][2]
          /\ analyzer_networks[b].first_seen = Float(signal_history[b][1][1])

\* C14: a beacon of a station that already has a record leaves the record
\* with the channel and the encryption observed in that beacon.
C14_KnownBeaconOverwritesRadio ==
    [][ \A packet \in Packets :
           (packet.addr2 \in DOMAIN networks /\ Beacon(packet)) =>
               /\ networks'[packet.addr2].channel = get_channel(packet)
               /\ networks'[packet.addr2].encryption = get_encryption(packet)
      ]_vars


\* the signal levels of a sample sequence, in order
Levels(samples) == [ i \in DOMAIN samples |-> samples[i][2] ]

IsPrefix(short, long) ==
    /\ Len(short) <= Len(long)
    /\ \A i \in DOMAIN short : long[i] = short[i]

\* C15: the samples of a station are the signal levels of the beacons
\* handled for it, one per beacon and in arrival order, in signal_history
\* and in the record's "signals"; a step only ever extends a sequence, it
\* never removes, reorders or rewrites an earlier sample.
C15_SamplesAppendOnly ==
    [][ pc = "capture" =>
          /\ \A b \in DOMAIN signal_history' :
                /\ Levels(signal_history'[b]) = ingested'[b]
                /\ analyzer_networks'[b].signals = signal_history'[b]
          /\ \A b \in DOMAIN signal_history :
                IsPrefix(signal_history[b], signal_history'[b])
      ]_vars

\* a station with as many samples as the bound allows, of two different
\* levels, two of them taken at the same time
C15_Witness ==
    /\ pc = "capture"
    /\ \E b \in DOMAIN signal_history :
          /\ Len(signal_history[b]) = MaxSamples
          /\ signal_history[b][1][2] # signal_history[b][2][2]
          /\ signal_history[b][2][1] = signal_history[b][3][1]
          /\ Levels(signal_history[b]) = ingested[b]


\* last_seen is not earlier than first_seen; both are clock readings, or
\* both the texts save_results puts in their place
SeenInOrder(record) ==
    /\ record.last_seen.kind = record.first_seen.kind
    /\ record.last_seen.v >= record.first_seen.v

\* C16: with a clock that never goes back, every record of the scanner and
\* of the analyzer has last_seen >= first_seen in every reachable state.
C16_LastSeenNotBeforeFirstSeen ==
    /\ \A b \in DOMAIN networks : SeenInOrder(networks[b])
    /\ \A b \in DOMAIN analyzer_networks : SeenInOrder(analyzer_networks[b])

\* a hidden station of the scanner was uncovered later than it was first seen
C16_Witness ==
    /\ Len(uncovered) > 0
    /\ \E b \in DOMAIN networks :
          /\ ~networks[b].hidden
          /\ uncovered[1][2] = b
          /\ networks[b].first_seen.kind = "float"
          /\ networks[b].last_seen.v > networks[b].first_seen.v


\* C17: a frame without a station identifier is rejected: no record is
\* ever stored under the absent identifier and the absent identifier never
\* enters hidden_networks.
C17_NoRecordUnderAbsentId ==
    /\ NoId \notin DOMAIN networks
    /\ NoId \notin hidden_networks


----------------------------------------------------------------------------
(* The stability report, against exact arithmetic *)

RECURSIVE SumOf(_, _, _)
SumOf(a, from, to) == IF from > to THEN 0 ELSE a[from] + SumOf(a, from + 1, to)

\* the signal levels of the argument
Levels_in == values_of(signals.list)

\* (second-half mean - first-half mean) and the threshold 3, both times the
\* product of the two lengths
HalfLen == Len(Levels_in) \div 2

MeanGain ==
    SumOf(Levels_in, HalfLen + 1, Len(Levels_in)) * HalfLen
        - SumOf(Levels_in, 1, HalfLen) * (Len(Levels_in) - HalfLen)

GainOfThree == 3 * HalfLen * (Len(Levels_in) - HalfLen)

ExactTrend ==
    IF -MeanGain > GainOfThree THEN "Deteriorating"
    ELSE IF MeanGain > GainOfThree THEN "Improving"
    ELSE "Stable"

\* C18: with at least 10 samples the trend is Deteriorating iff the mean of
\* the first half exceeds the mean of the second half by more than 3,
\* Improving iff the second exceeds the first by more than 3, and Stable
\* otherwise, a difference of exactly 3 included.
C18_TrendThresholds ==
    (analysis.called /\ ~signals.none /\ Len(signals.list) >= 10)
        => analysis.trend = ExactTrend

\* n^2 times the population variance of the levels
ScaledVariance ==
    Len(Levels_in) * SumOf([i \in DOMAIN Levels_in |-> Levels_in[i] * Levels_in[i]],
                           1, Len(Levels_in))
        - SumOf(Levels_in, 1, Len(Levels_in)) * SumOf(Levels_in, 1, Len(Levels_in))

\* the standard deviation is below t
SdBelow(t) == ScaledVariance < t * t * Len(Levels_in) * Len(Levels_in)

ExactBand ==
    IF SdBelow(2) THEN "Very Stable"
    ELSE IF SdBelow(5) THEN "Stable"
    ELSE IF SdBelow(10) THEN "Moderately Stable"
    ELSE "Unstable"

\* C19: with at least 3 samples the stability is Very Stable iff the
\* population standard deviation sd of the levels is below 2, Stable iff
\* 2 <= sd < 5, Moderately Stable iff 5 <= sd < 10, Unstable iff sd >= 10.
C19_StabilityBands ==
    (analysis.called /\ ~signals.none /\ Len(signals.list) >= 3)
        => analysis.stability = ExactBand

\* C20: analyze_signal_stability returns for every argument; the stability
\* it reports is Unknown when the argument is None, empty or shorter than
\* 3 samples, and is never Unknown with 3 samples or more.
C20_UnknownIffTooFew ==
    analysis.called =>
        (analysis.stability = "Unknown" <=> (signals.none \/ Len(signals.list) < 3))

\* two samples were analysed
C20_Witness ==
    /\ analysis.called
    /\ ~signals.none
    /\ Len(signals.list) = 2
    /\ analysis.stability = "Unknown"

\* C21: the trend of a capture of fewer than 10 samples, the empty and the
\* absent capture included, is Insufficient Data, and the trend of 10
\* samples or more is never Insufficient Data.
C21_TrendInsufficientIffShort ==
    analysis.called =>
        (analysis.trend = "Insufficient Data"
            <=> (signals.none \/ Len(signals.list) < 10))

CountsAs(network) ==
    IF network.has_type /\ network.type \in Range(ScoreTypes) THEN network.type
    ELSE "STANDARD"

\* C23: the distribution has one count per category of the closed set, the
\* count of a category is the number of records that carry it, a record
\* without a category or with one outside the closed set counting as
\* STANDARD; the counts add up to the number of records; and the chart
\* loader, given no distribution, computes the same mapping as the
\* classifier.
C23_DistributionCounts ==
    (distribution.called /\ ~loaded.has_distribution) =>
        /\ DOMAIN distribution.classifier = Range(ScoreTypes)
        /\ \A t \in Range(ScoreTypes) :
              distribution.classifier[t]
                  = Cardinality({ i \in DOMAIN loaded.networks :
                                      CountsAs(loaded.networks[i]) = t })
        /\ SumOf([ i \in DOMAIN ScoreTypes |-> distribution.classifier[ScoreTypes[i]] ],
                 1, Len(ScoreTypes)) = Len(loaded.networks)
        /\ distribution.chart = distribution.classifier

\* three records were counted: one without a category and one of an
\* unlisted category count as STANDARD, one is PUBLIC
C23_Witness ==
    /\ distribution.called
    /\ ~loaded.has_distribution
    /\ Len(loaded.networks) = 3
    /\ \E i \in 1..3 : ~loaded.networks[i].has_type
    /\ \E i \in 1..3 : loaded.networks[i].type = "HOME"
    /\ distribution.chart["STANDARD"] = 2
    /\ distribution.chart["PUBLIC"] = 1

\* how many keywords of a list the name contains when case is ignored
KeywordsIn(keywords, name) ==
    Cardinality({ k \in DOMAIN keywords : Contains(Upper(keywords[k]), Upper(name)) })

\* C24: the name adds to the score of every category 4 times the number of
\* that category's keywords the name contains when letter case is ignored,
\* the mixed-case keyword MiFi included.
C24_NameScore ==
    result.called =>
        \A type \in DOMAIN NETWORK_TYPES :
            ssid_score(Upper(network_data.ssid), type)
                = 4 * KeywordsIn(NETWORK_TYPES[type], network_data.ssid)

\* the vendor classes with a name the hint contains
VendorClasses ==
    { class \in DOMAIN MANUFACTURER_TYPES :
          KeywordsIn(MANUFACTURER_TYPES[class], network_data.manufacturer) > 0 }

\* what a vendor class adds to the score of a category
VendorIncrement(class, type) ==
    CASE class = "GOVERNMENT" /\ type = "POSSIBLE_OFFICIAL" -> 4
      [] class = "ENTERPRISE" /\ type = "ENTERPRISE" -> 3
      [] class = "CONSUMER" /\ type = "STANDARD" -> 2
      [] class = "CONSUMER" /\ type = "ISP_PROVIDED" -> 1
      [] class = "MOBILE" /\ type = "MOBILE_HOTSPOT" -> 4
      [] class = "IOT" /\ type = "IOT" -> 4
      [] OTHER -> 0

\* C25: the vendor hint falls into at most one vendor class and adds that
\* class's increments once; a hint of no vendor class adds nothing.
C25_VendorScore ==
    result.called =>
        /\ Cardinality(VendorClasses) <= 1
        /\ \A type \in Range(ScoreTypes) :
              manufacturer_score(Upper(network_data.manufacturer), type)
                  = IF VendorClasses = {} THEN 0
                    ELSE VendorIncrement(CHOOSE class \in VendorClasses : TRUE, type)

\* what concealment, cipher and signal level are stated to add to a category
EvidencePoints(type) ==
    (IF network_data.hidden
     THEN (CASE type = "POSSIBLE_OFFICIAL" -> 3 [] type = "ENTERPRISE" -> 2 [] OTHER -> 0)
     ELSE 0)
    + (CASE network_data.encryption = "WPA2/WPA3" /\ type \in {"POSSIBLE_OFFICIAL", "ENTERPRISE"} -> 2
         [] network_data.encryption = "WPA2/WPA3" /\ type = "ISP_PROVIDED" -> 1
         [] network_data.encryption = "Open" /\ type = "PUBLIC" -> 3
         [] OTHER -> 0)
    + (CASE network_data.signal > -40 /\ type \in {"STANDARD", "ISP_PROVIDED"} -> 1
         [] network_data.signal < -80 /\ type = "MOBILE_HOTSPOT" -> 1
         [] OTHER -> 0)

\* C26: for a record with a signal level, the score of every category is
\* what the name and the vendor hint add plus exactly the stated points for
\* concealment, cipher (WPA2/WPA3 or Open, nothing for any other) and signal
\* level (above -40 or below -80, nothing from -80 to -40); no part of a
\* score is negative.
C26_EvidencePoints ==
    (result.called /\ network_data.has_signal) =>
        \A type \in Range(ScoreTypes) :
            /\ compute_scores(network_data)[type]
                  = ssid_score(Upper(network_data.ssid), type)
                    + manufacturer_score(Upper(network_data.manufacturer), type)
                    + EvidencePoints(type)
            /\ hidden_score(network_data.hidden, type) >= 0
            /\ encryption_score(network_data.encryption, type) >= 0
            /\ signal_score(network_data.signal, type) >= 0
            /\ ssid_score(Upper(network_data.ssid), type) >= 0
            /\ manufacturer_score(Upper(network_data.manufacturer), type) >= 0

\* a concealed, strongly encrypted, very strong station without a telling
\* name or vendor: 5 points for POSSIBLE_OFFICIAL
C26_Witness ==
    /\ result.called
    /\ network_data.hidden
    /\ network_data.encryption = "WPA2/WPA3"
    /\ network_data.has_signal /\ network_data.signal = -30
    /\ network_data.ssid = LinksysText
    /\ network_data.manufacturer = UnknownText
    /\ compute_scores(network_data)["ISP_PROVIDED"] = 2
    /\ result.type = "POSSIBLE_OFFICIAL"
    /\ result.confidence10 = 5

\* the category wifi_scanner.classify_network gives a record under a name
TypeUnder(name, record) ==
    scanner_classify_network(name, record.bssid, record.encryption, record.manufacturer)

\* C27: the scanner computes the type of a record when it creates the
\* record, from the name it stores then, and no later step changes it; a
\* step that resolves a station changes its ssid, hidden and last_seen and
\* nothing else of its record.
C27_TypeSetOnceAtCreation ==
    [][ /\ \A b \in DOMAIN networks :
              /\ b \in DOMAIN networks'
              /\ networks'[b].type = networks[b].type
              /\ b \in hidden_networks \ hidden_networks' =>
                    networks'[b] = [ networks[b] EXCEPT !.ssid = networks'[b].ssid,
                                                        !.hidden = FALSE,
                                                        !.last_seen = networks'[b].last_seen ]
        /\ \A b \in DOMAIN networks' \ DOMAIN networks :
              networks'[b].type = TypeUnder(networks'[b].ssid, networks'[b])
      ]_vars

\* a resolved station whose type is still the one of the sentinel name,
\* while its disclosed name falls into another category
C27_Witness ==
    \E b \in DOMAIN networks :
        /\ ~networks[b].hidden
        /\ \E i \in DOMAIN uncovered : uncovered[i] = << networks[b].ssid, b >>
        /\ networks[b].type = TypeUnder(HiddenNetworkText, networks[b])
        /\ networks[b].type # TypeUnder(networks[b].ssid, networks[b])

\* C28: when signal_handler exports after main's save_results has written
\* its file, the second export completes too and writes the same stations
\* with the same firstSeen and lastSeen values as the first.
C28_SecondExportSucceeds ==
    [][ (SignalHandlerRun /\ scan_data.written) =>
            /\ pc' = "exited"
            /\ scan_data'.written
            /\ scan_data'.networks = scan_data.networks
      ]_vars

\* C29: generate_signal_report completes and writes a report in every state
\* of the analyzer's store: the report counts the stations of the store (none
\* when no station has been sighted), and a station with one or two samples
\* is listed with the metrics of too few samples.
C29_ReportAlwaysWritten ==
    [][ ReportRun =>
          /\ pc' = "finished"
          /\ report'.written
          /\ report'.total_networks = Cardinality(DOMAIN analyzer_networks)
          /\ \A b \in DOMAIN signal_history :
                Len(signal_history[b]) \in 1..2 =>
                  /\ b \in DOMAIN report'.networks
                  /\ report'.networks[b].stability = "Unknown"
                  /\ report'.networks[b].trend = "Unknown"
      ]_vars

\* C30: the session ends and reports exactly once.  No report is called
\* twice; a session that has ended has called it once; once the flag is set
\* or the duration is over no capture interval starts; every session ends.
C30_EndsAndReportsOnce ==
    /\ [](report.calls <= 1)
    /\ [](pc \in {"finished", "failed"} => report.calls = 1)
    /\ [][ (interrupted \/ current_time >= end_time) => ~(pc # "capture" /\ pc' = "capture") ]_vars
    /\ <>(pc \in {"finished", "failed"})

\* an interrupted session, ended before its duration, with one report
C30_Witness ==
    /\ pc = "finished"
    /\ interrupted
    /\ current_time < end_time
    /\ report.calls = 1
    /\ report.written

====
